---- MODULE Spec2Model ----
(***************************************************************************)
(* Bjorn-Manager: the discovery engine (discovery/manager.py,              *)
(* discovery/device.py), the remote installation loop (ssh/worker.py) and  *)
(* the application entry points that drive them (app.py).                  *)
(*                                                                         *)
(* Text is modelled as sequences of one-character strings, so that         *)
(* normalisation, formatting and parsing are computed, not assumed.        *)
(* Python's None and "" are both the empty sequence: the code only tests   *)
(* their truthiness.  An IPv4 address is the sequence of its four octets   *)
(* written as strings (the dotted-quad text split at the dots).            *)
(***************************************************************************)
EXTENDS Integers, Sequences, FiniteSets, TLC

(***************************************************************************)
(* Bounds of the model                                                     *)
(***************************************************************************)
NumWorkers == 1
MaxTicks == 1
MaxSightings == 3
MaxCalls == 4
MaxLines == 1
MaxWrites == 2
MaxConnects == 2
MaxInstalls == 2
MaxWorkerCalls == 3
MaxLogLines == 2
MaxStarts == 2
MaxLifeCalls == 3
MaxLifeIps == 2
MaxStreams == 3
MaxStreamCalls == 3
MaxStreamLines == 2
MaxPollCycles == 2
SweepPool == 2
MaxOps == 3
MaxJsItems == 3
MaxJsReady == 2
MaxJsStops == 2

(***************************************************************************)
(* Text helpers (Python str methods used by the code)                      *)
(***************************************************************************)
UpperChars == <<"A","B","C","D","E","F","G","H","I","J","K","L","M",
                "N","O","P","Q","R","S","T","U","V","W","X","Y","Z">>
LowerChars == <<"a","b","c","d","e","f","g","h","i","j","k","l","m",
                "n","o","p","q","r","s","t","u","v","w","x","y","z">>

\* upper-case letter -> lower-case letter
UpperToLower == [c \in {UpperChars[i] : i \in 1..26} |->
                    LowerChars[CHOOSE i \in 1..26 : UpperChars[i] = c]]

LowerChar(c) == IF c \in DOMAIN UpperToLower THEN UpperToLower[c] ELSE c

Lower(s) == [i \in 1..Len(s) |-> LowerChar(s[i])]

IsSpace(c) == c \in {" ", "\t", "\n", "\r"}

StartsWith(s, p) == Len(s) >= Len(p) /\ SubSeq(s, 1, Len(p)) = p

EndsWith(s, p) == Len(s) >= Len(p) /\ SubSeq(s, Len(s) - Len(p) + 1, Len(s)) = p

RECURSIVE LStrip(_)
LStrip(s) == IF s # <<>> /\ IsSpace(Head(s)) THEN LStrip(Tail(s)) ELSE s

RECURSIVE RStrip(_)
RStrip(s) ==
    IF s # <<>> /\ IsSpace(s[Len(s)]) THEN RStrip(SubSeq(s, 1, Len(s) - 1)) ELSE s

Strip(s) == LStrip(RStrip(s))

RECURSIVE RStripDot(_)
RStripDot(s) ==
    IF s # <<>> /\ s[Len(s)] = "." THEN RStripDot(SubSeq(s, 1, Len(s) - 1)) ELSE s

\* true when sub occurs in s as a contiguous run (Python "sub in s")
Contains(s, sub) ==
    \E i \in 1..(Len(s) - Len(sub) + 1) : SubSeq(s, i, i + Len(sub) - 1) = sub

Digits == <<"0","1","2","3","4","5","6","7","8","9">>

IsDigit(c) == \E i \in 1..10 : Digits[i] = c

DigitVal(c) == (CHOOSE i \in 1..10 : Digits[i] = c) - 1

\* str(n) for n >= 0
RECURSIVE IntToStr(_)
IntToStr(n) ==
    IF n < 10 THEN <<Digits[n + 1]>>
    ELSE IntToStr(n \div 10) \o <<Digits[(n % 10) + 1]>>

\* int(s) restricted to plain decimal text; -1 stands for ValueError
RECURSIVE StrToInt(_)
StrToInt(s) ==
    IF s = <<>> \/ \E i \in 1..Len(s) : ~IsDigit(s[i]) THEN -1
    ELSE IF Len(s) = 1 THEN DigitVal(s[1])
    ELSE StrToInt(SubSeq(s, 1, Len(s) - 1)) * 10 + DigitVal(s[Len(s)])

\* s.split()[-1]: the last run of non-blank characters (<<>> when there is none)
RECURSIVE LastWordFrom(_, _)
LastWordFrom(s, i) ==
    IF i > 1 /\ ~IsSpace(s[i - 1]) THEN LastWordFrom(s, i - 1) ELSE i

LastWord(s) ==
    LET r == RStrip(s) IN
    IF r = <<>> THEN <<>> ELSE SubSeq(r, LastWordFrom(r, Len(r)), Len(r))

(***************************************************************************)
(* State                                                                   *)
(***************************************************************************)
\* the discovery engine
VARIABLES
    strict_bjorn_only,  \* Discovery.strict_bjorn_only
    ignored_ips,        \* Discovery._ignored_ips
    seen_ips,           \* Discovery._seen_ips
    alias_map,          \* DeviceAliasManager.map
    registry,           \* Discovery._registry: key -> [alias, ips, last_seen]
    clock,              \* time.time(), in seconds
    ticks,              \* number of clock advances so far
    sightings,          \* number of sightings begun so far
    sight,              \* per discovery thread: position in _emit_device and its locals
    sweepDone,          \* the subnet sweep has joined its workers and started the poller
    found,              \* device_found callbacks made: [key, ip, alias] -> how many
    goneCnt,            \* ip -> number of device_gone callbacks made
    webLog,             \* addresses a webapp_status event was pushed for
    outcomes            \* how sightings ended so far: "ignored", "rejected", "repeat", "new"

dvars == <<strict_bjorn_only, ignored_ips, seen_ips, alias_map, registry, clock,
           ticks, sightings, sight, sweepDone, found, goneCnt, webLog, outcomes>>

\* DeviceAliasManager driven by one caller (sequential use)
VARIABLES
    a_map,              \* DeviceAliasManager.map
    a_calls             \* the alias_for calls made so far: [key, alias returned]

avars == <<a_map, a_calls>>

\* one run_install call on an SSHWorker and the remote command it drives
VARIABLES
    i_stream,           \* all the bytes the remote command writes before it exits
    i_sent,             \* how many of them it has written so far
    i_writes,           \* in how many writes
    i_exit_status,      \* its exit status, -1 while it runs
    i_client,           \* SSHWorker._client is set
    i_pc,               \* position of the call: "idle", "recv", "pw", "exit", "done"
    i_rcvd,             \* how many bytes chan.recv has returned
    i_buff,             \* buff
    i_pw_sent,          \* pw_sent
    i_sends,            \* the data passed to chan.send, in order
    i_events,           \* the calls made to the callback, in order
    i_reads,            \* lengths of the chunks recv returned in the poll loop
    i_rc,               \* rc, -1 while unassigned
    i_ret               \* what the call returned: "none", "True", "False"

ivars == <<i_stream, i_sent, i_writes, i_exit_status, i_client, i_pc, i_rcvd,
           i_buff, i_pw_sent, i_sends, i_events, i_reads, i_rc, i_ret>>

\* the application object and the SSH workers it creates
VARIABLES
    ssh_worker,         \* BJORNWebAPI.ssh_worker: a worker id, 0 for None
    w_client,           \* per worker: SSHWorker._client is set
    w_connected,        \* per worker: SSHWorker._connected
    app_connected,      \* BJORNWebAPI._connected
    installation_mode,  \* BJORNWebAPI._installation_mode
    connects,           \* per connect_thread: its position
    installs            \* per install_thread: its position and the worker it is using

pvars == <<ssh_worker, w_client, w_connected, app_connected, installation_mode,
           connects, installs>>

\* one SSHWorker, its configuration, the key files on disk, and the calls made on it
VARIABLES
    s_config,           \* SSHWorker._config: [key_path, password], "" for None
    s_files,            \* path -> "absent", "valid", "invalid" or "unreadable"
    s_client,           \* SSHWorker._client: a client id, 0 for None
    s_connected,        \* SSHWorker._connected
    s_clients,          \* number of paramiko.SSHClient objects created so far
    s_calls,            \* number of calls made on the worker so far
    s_op,               \* the last call: "none", "connect", "close"
    s_env,              \* what the server did during the last connect call
    s_tried,            \* the authentication methods the last connect call tried, in order
    s_events,           \* the callback calls made by the last call, in order
    s_ret,              \* what the last call did: "none", "True", "False", "None", "raise"
    s_hist              \* the calls made so far: [op, ret, close_raised]

svars == <<s_config, s_files, s_client, s_connected, s_clients, s_calls, s_op,
           s_env, s_tried, s_events, s_ret, s_hist>>

\* one stream_logs call on an SSHWorker, the remote journalctl and the stop event
VARIABLES
    l_client,           \* SSHWorker._client is set
    l_stream,           \* all the bytes the remote command writes before it exits
    l_sent,             \* how many of them it has written so far
    l_exit,             \* the remote command has exited
    l_stop,             \* stop_event.is_set()
    l_pc,               \* position of the call: "idle", "while", "for", "close", "done"
    l_rcvd,             \* how many bytes channel.recv has returned
    l_lines,            \* the lines of data.splitlines() the for loop has not reached
    l_observed,         \* the call has seen stop_event.is_set() answer True
    l_closed,           \* channel.close() was called
    l_events            \* the calls made to the callback, in order

lvars == <<l_client, l_stream, l_sent, l_exit, l_stop, l_pc, l_rcvd, l_lines,
           l_observed, l_closed, l_events>>

\* one Discovery object, the caller of its lifecycle methods and its threads
VARIABLES
    e_stop,             \* Discovery._stop
    e_zeroconf,         \* Discovery.zeroconf is set
    e_browsers,         \* len(Discovery.browsers)
    e_handles,          \* _cidr_thread, _port8000_thread, _sweeper_thread: a thread or <<>>
    e_thr,              \* per thread: [pc, ip, epoch, base]
    e_queue,            \* per sweep: the addresses its workers have not taken yet
    e_call,             \* the caller: "idle", in "stop", in the stop of "reset"
    e_gen,              \* number of start() calls made
    e_calls,            \* number of lifecycle calls made
    e_clears,           \* number of state clears made by reset()
    e_seen,             \* _seen_ips: [ip, epoch of the sighting that added it]
    e_alias,            \* alias_mgr.map: ip -> [n, epoch of the sighting that stored it]
    e_registry,         \* _registry: ip -> [n, epoch of the sighting that wrote it]
    e_emits,            \* callbacks made: [type, locked (made under _registry_lock)]
    e_owed,             \* the threads that were running when stop() was last called
    e_first,            \* alias number of the first sighting begun since the last clear
    e_start             \* the last start(): [fails, zeroconf, browsers, cidr, sweeper,
                        \*                    errors, ret]

evars == <<e_stop, e_zeroconf, e_browsers, e_handles, e_thr, e_queue, e_call, e_gen,
           e_calls, e_clears, e_seen, e_alias, e_registry, e_emits, e_owed, e_first,
           e_start>>

\* JSBridge (ui/js_bridge.py): the window, the two events, the queue, the
\* consumer threads that mark_ready has created, the evaluate_js calls begun
\* (in order), the calls made so far and the position of stop()
VARIABLES b_window, b_ready, b_stop, b_queue, b_thr, b_started, b_log, b_enq,
          b_stops, b_call

bvars == <<b_window, b_ready, b_stop, b_queue, b_thr, b_started, b_log, b_enq,
           b_stops, b_call>>

\* one SSHWorker used by one caller, with the resources its operations and
\* the discovery probe acquire: the client held, _connected, the resources
\* open by kind, the last operation and the number of operations
VARIABLES o_config, o_files, o_client, o_connected, o_open, o_op, o_calls

ovars == <<o_config, o_files, o_client, o_connected, o_open, o_op, o_calls>>

\* one run of _scan_cidr_loop: the network of the default interface, the
\* target networks, the index of the network being swept, its queue, the
\* workers by network, the probes made of port 22 by address, the position
\* of the sweep thread, the stop flag and whether the poller was started
VARIABLES k_gateway, k_nets, k_idx, k_queue, k_thr, k_probes, k_pc, k_stop, k_poller

kvars == <<k_gateway, k_nets, k_idx, k_queue, k_thr, k_probes, k_pc, k_stop, k_poller>>

\* one run of _port8000_poll: the seen addresses, whether port 8000 of each
\* address accepts a connection, _web_status_prev, the futures of the cycle
\* not yet taken from as_completed, the webapp_status callbacks made, the
\* position of the poller thread, the stop flag and the number of cycles
VARIABLES q_seen, q_up, q_web_status_prev, q_futures, q_events, q_pc, q_stop, q_cycles

qvars == <<q_seen, q_up, q_web_status_prev, q_futures, q_events, q_pc, q_stop, q_cycles>>

\* log streaming of the application object: the state of the SSH connection
\* the API sees, the stop event, the thread handle, the stream threads, the
\* lines logged and the results of the stream_logs calls
VARIABLES m_conn, m_stop, m_thread, m_thr, m_lines, m_rets

mvars == <<m_conn, m_stop, m_thread, m_thr, m_lines, m_rets>>

\* the sub-models below the application object
xvars == <<svars, lvars, evars, bvars, ovars, kvars, qvars, mvars>>

vars == <<dvars, avars, ivars, pvars, xvars>>

(***************************************************************************)
(* DeviceAliasManager (discovery/device.py)                                *)
(***************************************************************************)
AliasPrefix == <<"B","j","o","r","n"," ">>

\* f"Bjorn {n}"
FormatAlias(n) == AliasPrefix \o IntToStr(n)

\* the set "used" built by _next_index from the aliases of the map
UsedIndexesMutLive(map) ==
    { StrToInt(LastWord(map[k])) :
        k \in { d \in DOMAIN map \cap DOMAIN registry :
                   StartsWith(Lower(map[d]), Lower(AliasPrefix))
                   /\ StrToInt(LastWord(map[d])) >= 0 } }

UsedIndexes(map) ==
    { StrToInt(LastWord(map[k])) :
        k \in { d \in DOMAIN map : StartsWith(Lower(map[d]), Lower(AliasPrefix))
                                   /\ StrToInt(LastWord(map[d])) >= 0 } }

RECURSIVE LowestFrom(_, _)
LowestFrom(used, n) == IF n \in used THEN LowestFrom(used, n + 1) ELSE n

\* _next_index: n = 1; while n in used: n += 1
NextIndexMutFromTwo(map) == LowestFrom(UsedIndexes(map), 2)

NextIndex(map) == LowestFrom(UsedIndexes(map), 1)

(***************************************************************************)
(* Address classifier helpers (discovery/manager.py)                       *)
(***************************************************************************)
TagUSB == <<"U","S","B">>
TagBluetooth == <<"B","l","u","e","t","o","o","t","h">>
TagLAN == <<"L","A","N">>

\* _ip_tag: the prefixes "172.20.2." and "172.20.1." are the first three octets
IpTag(ip) ==
    IF SubSeq(ip, 1, 3) = <<"172", "20", "2">> THEN TagUSB
    ELSE IF SubSeq(ip, 1, 3) = <<"172", "20", "1">> THEN TagBluetooth
    ELSE TagLAN

DotLocal == <<".","l","o","c","a","l">>
DotHome == <<".","h","o","m","e">>
StrBjorn == <<"b","j","o","r","n">>

\* _normalize_host
NormalizeHost(host) ==
    IF host = <<>> THEN <<>>
    ELSE LET h == RStripDot(Lower(Strip(host))) IN
         IF EndsWith(h, DotLocal) THEN SubSeq(h, 1, Len(h) - 6)
         ELSE IF EndsWith(h, DotHome) THEN SubSeq(h, 1, Len(h) - 5)
         ELSE h

\* _is_bjorn_hostname
IsBjornHostnameMutAny(host) == host # <<>>

IsBjornHostname(host) ==
    IF host = <<>> THEN FALSE
    ELSE LET s == RStripDot(Lower(Strip(host))) IN
         \/ s \in {StrBjorn \o DotLocal, StrBjorn \o DotHome}
         \/ (StartsWith(s, StrBjorn) /\ (EndsWith(s, DotLocal) \/ EndsWith(s, DotHome)))
         \/ s = StrBjorn
         \/ StartsWith(s, StrBjorn \o <<"-">>)
         \/ StartsWith(s, StrBjorn \o <<"_">>)

\* _device_key(label, ip); rev is the result of the reverse lookup the code
\* makes when label is empty
DeviceKey(label, ip, rev) ==
    LET host == NormalizeHost(IF label # <<>> THEN label ELSE rev) IN
    IF IsBjornHostname(host) THEN host ELSE ip

\* f"{base_alias} ({tag})"
ComposeAlias(base, tag) == base \o <<" ", "(">> \o tag \o <<")">>

(***************************************************************************)
(* Discovery engine: inputs                                                *)
(***************************************************************************)
IpLan == <<"10", "0", "0", "5">>
IpUsb == <<"172", "20", "2", "7">>
IpRouter == <<"192", "168", "1", "1">>
\* the addresses a sighting can be about
ProbeIps == {IpLan, IpUsb, IpRouter}

\* _build_ignored_ips: the addresses added whatever netifaces reports
CommonRouterIps ==
    { <<"192", "168", "1", "1">>, <<"192", "168", "0", "1">>,
      <<"192", "168", "1", "254">>, <<"10", "0", "0", "1">> }

\* gateway and own-interface addresses netifaces can report: the LAN address
\* may be one of this machine's own
LocalNetIps == {IpLan}

NameBjornLocal == <<"B","j","o","r","n",".","l","o","c","a","l",".">>
NameBjorn2 == <<"b","j","o","r","n","-","2">>
NameBjornxLocal == <<"b","j","o","r","n","x",".","l","o","c","a","l">>
NameBjornxLocalHome == NameBjornxLocal \o <<".","h","o","m","e">>

\* names an mDNS record or a reverse lookup can carry; <<>> is "no name" (the
\* last name is the host name "bjornx.local" with the domain of a router's
\* name server appended)
HostNames == {NameBjornLocal, NameBjorn2, NameBjornxLocal, NameBjornxLocalHome, <<>>}

MdnsThread == 0
Workers == 1..NumWorkers
Threads == {MdnsThread} \cup Workers

\* self._stale_timeout
StaleTimeout == 90

Cnt(f, p) == IF p \in DOMAIN f THEN f[p] ELSE 0
Inc(f, p) == (p :> (Cnt(f, p) + 1)) @@ f

IdleSight == [pc |-> "idle", ip |-> <<>>, key |-> <<>>, base |-> <<>>,
              itSize |-> 0, idx |-> 0, now |-> 0]

\* _build_ignored_ips
BuildIgnoredIps(local) == CommonRouterIps \cup local

\* _is_ignored_ip
IsIgnoredIpMutNever(ign, ip) == FALSE

IsIgnoredIp(ign, ip) == ip \in ign

\* _reverse_hostname: host.strip().lower(), None on failure
ReverseHostname(raw) == Lower(Strip(raw))

\* Discovery.__init__ apart from the ignore list
DInitRest ==
    /\ strict_bjorn_only = TRUE      \* the default, which start_discovery uses
    /\ seen_ips = {}
    /\ alias_map = <<>>
    /\ registry = <<>>
    /\ clock = 0
    /\ ticks = 0
    /\ sightings = 0
    /\ sight = [t \in Threads |-> IdleSight]
    /\ sweepDone = FALSE
    /\ found = <<>>
    /\ goneCnt = [ip \in ProbeIps |-> 0]
    /\ webLog = {}
    /\ outcomes = {}

DInit ==
    /\ ignored_ips \in {BuildIgnoredIps(l) : l \in SUBSET LocalNetIps}
    /\ DInitRest

\* a discovery engine that is constructed and never started
DIdle ==
    /\ ignored_ips = BuildIgnoredIps({})
    /\ DInitRest

\* an alias manager nobody calls
AIdle ==
    /\ a_map = <<>>
    /\ a_calls = <<>>

(***************************************************************************)
(* _emit_device, entered from _on_service (mDNS) or from a sweep worker    *)
(***************************************************************************)
\* lines 226-236 of _emit_device for label and ip; rev1 and rev2 are the
\* results of the reverse lookups made when the name at hand is empty
EmitDeviceEnter(t, label, ip, rev1, rev2) ==
    IF IsIgnoredIp(ignored_ips, ip)
    THEN /\ outcomes' = outcomes \cup {"ignored"}
         /\ UNCHANGED <<seen_ips, sight>>
    ELSE /\ seen_ips' = seen_ips \cup {ip}
         /\ LET host == NormalizeHost(IF label # <<>> THEN label ELSE rev1) IN
            IF strict_bjorn_only /\ ~IsBjornHostname(host)
            THEN /\ outcomes' = outcomes \cup {"rejected"}
                 /\ UNCHANGED sight
            ELSE /\ UNCHANGED outcomes
                 /\ sight' = [sight EXCEPT ![t] =
                       [IdleSight EXCEPT !.pc = "alias_check", !.ip = ip,
                                         !.key = DeviceKey(host, ip, rev2)]]

\* _on_service for one resolved address
OnService(server0, ip) ==
    /\ sight[MdnsThread].pc = "idle"
    /\ sightings < MaxSightings
    /\ sightings' = sightings + 1
    /\ LET server == RStripDot(server0)
           label == IF server # <<>> THEN server ELSE StrBjorn
       IN IF strict_bjorn_only /\ ~IsBjornHostname(server)
          THEN UNCHANGED <<seen_ips, sight, outcomes>>
          ELSE \E rev2 \in (IF NormalizeHost(label) = <<>>
                              THEN {ReverseHostname(r) : r \in HostNames} ELSE {<<>>}) :
                  EmitDeviceEnter(MdnsThread, label, ip, <<>>, rev2)
    /\ UNCHANGED <<strict_bjorn_only, ignored_ips, alias_map, registry, clock, ticks,
                   sweepDone, found, goneCnt, webLog>>

\* the body of worker() in _scan_cidr_loop for one address whose port 22 answers
WorkerSighting(w, ip) ==
    /\ ~sweepDone
    /\ sight[w].pc = "idle"
    /\ sightings < MaxSightings
    /\ sightings' = sightings + 1
    /\ \E r0 \in HostNames :
         LET hostname == ReverseHostname(r0) IN
         \E rev1 \in (IF hostname = <<>> THEN {ReverseHostname(r) : r \in HostNames}
                      ELSE {<<>>}) :
         \E rev2 \in (IF NormalizeHost(IF hostname # <<>> THEN hostname ELSE rev1) = <<>>
                      THEN {ReverseHostname(r) : r \in HostNames} ELSE {<<>>}) :
            EmitDeviceEnter(w, hostname, ip, rev1, rev2)
    /\ UNCHANGED <<strict_bjorn_only, ignored_ips, alias_map, registry, clock, ticks,
                   sweepDone, found, goneCnt, webLog>>

\* alias_for: "if device_id in self.map: return self.map[device_id]"
AliasForKnown(t) ==
    /\ sight[t].pc = "alias_check"
    /\ sight[t].key \in DOMAIN alias_map
    /\ sight' = [sight EXCEPT ![t].pc = "registry",
                              ![t].base = alias_map[sight[t].key],
                              ![t].now = clock]
    /\ UNCHANGED <<strict_bjorn_only, ignored_ips, seen_ips, alias_map, registry, clock,
                   ticks, sightings, sweepDone, found, goneCnt, webLog, outcomes>>

\* alias_for: the key is unknown, _next_index starts iterating self.map.values()
AliasForUnknown(t) ==
    /\ sight[t].pc = "alias_check"
    /\ sight[t].key \notin DOMAIN alias_map
    /\ sight' = [sight EXCEPT ![t].pc = "alias_iter"]
    /\ UNCHANGED <<strict_bjorn_only, ignored_ips, seen_ips, alias_map, registry, clock,
                   ticks, sightings, sweepDone, found, goneCnt, webLog, outcomes>>

\* _next_index: the dict iterator is created and remembers the size of the map
NextIndexBegin(t) ==
    /\ sight[t].pc = "alias_iter"
    /\ sight' = [sight EXCEPT ![t].pc = "alias_next",
                              ![t].itSize = Cardinality(DOMAIN alias_map)]
    /\ UNCHANGED <<strict_bjorn_only, ignored_ips, seen_ips, alias_map, registry, clock,
                   ticks, sightings, sweepDone, found, goneCnt, webLog, outcomes>>

\* _next_index: the iteration ends and the lowest unused index is computed
NextIndexEnd(t) ==
    /\ sight[t].pc = "alias_next"
    /\ Cardinality(DOMAIN alias_map) = sight[t].itSize
    /\ sight' = [sight EXCEPT ![t].pc = "alias_write", ![t].itSize = 0,
                              ![t].idx = NextIndex(alias_map)]
    /\ UNCHANGED <<strict_bjorn_only, ignored_ips, seen_ips, alias_map, registry, clock,
                   ticks, sightings, sweepDone, found, goneCnt, webLog, outcomes>>

\* _next_index: another thread inserted into the map during the iteration and
\* the iterator raises RuntimeError; _on_service swallows it, a sweep worker dies
NextIndexRaise(t) ==
    /\ sight[t].pc = "alias_next"
    /\ Cardinality(DOMAIN alias_map) # sight[t].itSize
    /\ sight' = [sight EXCEPT ![t] =
                    [IdleSight EXCEPT !.pc = IF t = MdnsThread THEN "idle" ELSE "dead"]]
    /\ UNCHANGED <<strict_bjorn_only, ignored_ips, seen_ips, alias_map, registry, clock,
                   ticks, sightings, sweepDone, found, goneCnt, webLog, outcomes>>

\* alias_for: "self.map[device_id] = alias" (then _save, a no-op without a path)
AliasForStore(map, key, idx) == (key :> FormatAlias(idx)) @@ map

AliasForWrite(t) ==
    /\ sight[t].pc = "alias_write"
    /\ alias_map' = AliasForStore(alias_map, sight[t].key, sight[t].idx)
    /\ sight' = [sight EXCEPT ![t].pc = "registry", ![t].idx = 0,
                              ![t].base = FormatAlias(sight[t].idx),
                              ![t].now = clock]
    /\ UNCHANGED <<strict_bjorn_only, ignored_ips, seen_ips, registry, clock,
                   ticks, sightings, sweepDone, found, goneCnt, webLog, outcomes>>

\* the block of _emit_device under _registry_lock: the record after the sighting
RegisterSightingMutFirstOnly(reg, key, ip, base, now) ==
    LET rec == IF key \in DOMAIN reg THEN reg[key]
               ELSE [alias |-> base, ips |-> {}, last_seen |-> now]
    IN (key :> [rec EXCEPT !.ips = @ \cup {ip}]) @@ reg

RegisterSightingMutNoAdd(reg, key, ip, base, now) ==
    LET rec == IF key \in DOMAIN reg THEN reg[key]
               ELSE [alias |-> base, ips |-> {}, last_seen |-> now]
    IN (key :> [rec EXCEPT !.last_seen = now]) @@ reg

RegisterSighting(reg, key, ip, base, now) ==
    LET rec == IF key \in DOMAIN reg THEN reg[key]
               ELSE [alias |-> base, ips |-> {}, last_seen |-> now]
    IN (key :> [rec EXCEPT !.ips = @ \cup {ip}, !.last_seen = now]) @@ reg

\* is_new_device or is_new_ip_for_device
IsNewEntry(reg, key, ip) == key \notin DOMAIN reg \/ ip \notin reg[key].ips

\* _emit_device from "with self._registry_lock" to its end: the record is
\* updated under the lock; after the lock is released a new device or a new
\* address is probed on port 8000 and reported as device_found (the probe
\* result is passed through to the sink and is not recorded)
EmitDeviceRegister(t) ==
    /\ sight[t].pc = "registry"
    /\ LET key == sight[t].key
           ip == sight[t].ip
       IN /\ registry' = RegisterSighting(registry, key, ip, sight[t].base, sight[t].now)
          /\ found' = IF IsNewEntry(registry, key, ip)
                      THEN Inc(found, [key |-> key, ip |-> ip,
                                       alias |-> ComposeAlias(sight[t].base, IpTag(ip))])
                      ELSE found
    /\ outcomes' = outcomes \cup
          {IF IsNewEntry(registry, sight[t].key, sight[t].ip) THEN "new" ELSE "repeat"}
    /\ sight' = [sight EXCEPT ![t] = IdleSight]
    /\ UNCHANGED <<strict_bjorn_only, ignored_ips, seen_ips, alias_map, clock,
                   ticks, sightings, sweepDone, goneCnt, webLog>>

(***************************************************************************)
(* _scan_cidr_loop (end of the sweep), _port8000_poll, _sweeper_loop       *)
(***************************************************************************)
\* the workers of the last network are joined; the poller thread is started
ScanCidrFinish ==
    /\ ~sweepDone
    /\ \A w \in Workers : sight[w].pc \in {"idle", "dead"}
    /\ sweepDone' = TRUE
    /\ UNCHANGED <<strict_bjorn_only, ignored_ips, seen_ips, alias_map, registry, clock,
                   ticks, sightings, sight, found, goneCnt, webLog,
                   outcomes>>

\* the addresses one poll cycle probes: "ips = list(self._seen_ips)"
PollTargetsMutAll(seen) == ProbeIps

PollTargets(seen) == seen

\* one cycle of _port8000_poll: the snapshot, the probes and one webapp_status
\* per probed address (the probe result is passed through to the sink and is
\* not recorded)
PollCycleMutRefresh ==
    /\ sweepDone
    /\ PollTargets(seen_ips) # {}
    /\ webLog' = webLog \cup PollTargets(seen_ips)
    /\ registry' = [k \in DOMAIN registry |->
                       IF registry[k].ips \cap PollTargets(seen_ips) # {}
                       THEN [registry[k] EXCEPT !.last_seen = clock]
                       ELSE registry[k]]
    /\ UNCHANGED <<strict_bjorn_only, ignored_ips, seen_ips, alias_map, clock,
                   ticks, sightings, sight, sweepDone, found, goneCnt,
                   outcomes>>

PollCycle ==
    /\ sweepDone
    /\ PollTargets(seen_ips) # {}
    /\ webLog' = webLog \cup PollTargets(seen_ips)
    /\ UNCHANGED <<strict_bjorn_only, ignored_ips, seen_ips, alias_map, registry, clock,
                   ticks, sightings, sight, sweepDone, found, goneCnt,
                   outcomes>>

\* "now - rec['last_seen'] > self._stale_timeout"
IsStaleMutGeq(now, rec) == now - rec.last_seen >= StaleTimeout

IsStale(now, rec) == now - rec.last_seen > StaleTimeout

\* to_delete as built by one pass over the registry
ToDelete(reg, now) == {k \in DOMAIN reg : IsStale(now, reg[k])}

\* "for key in to_delete: self._registry.pop(key, None)"
SweepPopMutKeep(reg, del) == reg

SweepPop(reg, del) == [k \in (DOMAIN reg) \ del |-> reg[k]]

\* the number of device_gone callbacks the pass makes for ip
GoneCallbacks(reg, del, ip) == Cardinality({k \in del : ip \in reg[k].ips})

\* one pass of _sweeper_loop: now is read, then under _registry_lock the stale
\* records are reported address by address and removed
SweeperPass ==
    /\ LET del == ToDelete(registry, clock) IN
       /\ goneCnt' = [ip \in DOMAIN goneCnt |->
                         goneCnt[ip] + GoneCallbacks(registry, del, ip)]
       /\ registry' = SweepPop(registry, del)
    /\ UNCHANGED <<strict_bjorn_only, ignored_ips, seen_ips, alias_map, clock,
                   ticks, sightings, sight, sweepDone, found, webLog, outcomes>>

\* time passes
Tick ==
    /\ ticks < MaxTicks
    /\ ticks' = ticks + 1
    /\ \E d \in {StaleTimeout, StaleTimeout + 1} : clock' = clock + d
    /\ UNCHANGED <<strict_bjorn_only, ignored_ips, seen_ips, alias_map, registry,
                   sightings, sight, sweepDone, found, goneCnt, webLog,
                   outcomes>>

(***************************************************************************)
(* SSHWorker.run_install (ssh/worker.py): text helpers                     *)
(***************************************************************************)
\* the two bytes of a two-byte UTF-8 character and the character they encode
Utf8 == [lead |-> "xC3", cont |-> "xA9", char |-> "U+00E9", replacement |-> "U+FFFD"]

\* data.decode("utf-8", errors="ignore"): an ASCII byte is its character, a
\* lead byte followed by its continuation byte is one character, and a byte
\* of an incomplete sequence is dropped
RECURSIVE Decode(_)
Decode(data) ==
    IF data = <<>> THEN <<>>
    ELSE IF Head(data) = Utf8.lead
    THEN IF Len(data) >= 2 /\ data[2] = Utf8.cont
         THEN <<Utf8.char>> \o Decode(SubSeq(data, 3, Len(data)))
         ELSE Decode(Tail(data))
    ELSE IF Head(data) = Utf8.cont THEN Decode(Tail(data))
    ELSE <<Head(data)>> \o Decode(Tail(data))

\* text.splitlines() from position i on, cur being the line collected so far:
\* a line ends at "\n", "\r" or "\r\n" and the terminator is not kept
RECURSIVE SplitLinesFrom(_, _, _)
SplitLinesFrom(s, i, cur) ==
    IF i > Len(s) THEN (IF cur = <<>> THEN <<>> ELSE <<cur>>)
    ELSE IF s[i] = "\n" THEN <<cur>> \o SplitLinesFrom(s, i + 1, <<>>)
    ELSE IF s[i] = "\r"
    THEN <<cur>> \o
         SplitLinesFrom(s, IF i < Len(s) /\ s[i + 1] = "\n" THEN i + 2 ELSE i + 1, <<>>)
    ELSE SplitLinesFrom(s, i + 1, Append(cur, s[i]))

SplitLines(s) == SplitLinesFrom(s, 1, <<>>)

\* first position from i on that holds no white space (\s+ is greedy)
RECURSIVE SpanSpace(_, _)
SpanSpace(s, i) == IF i <= Len(s) /\ IsSpace(s[i]) THEN SpanSpace(s, i + 1) ELSE i

\* first position from i on that holds no digit (\d+ is greedy)
RECURSIVE SpanDigits(_, _)
SpanDigits(s, i) == IF i <= Len(s) /\ IsDigit(s[i]) THEN SpanDigits(s, i + 1) ELSE i

\* the literal words of STEP_PATTERN, lower-cased (the pattern ignores case)
StepWords == [step |-> <<"s","t","e","p">>, of |-> <<"o","f">>]

\* STEP_PATTERN matched at position i of line: the two groups
\* <<group(1), group(2)>>, or <<>> when there is no match at i
StepMatchAt(line, i) ==
    LET a == i + Len(StepWords.step)
        b == SpanSpace(line, a)
        c == SpanDigits(line, b)
        d == SpanSpace(line, c)
        e == d + Len(StepWords.of)
        f == SpanSpace(line, e)
        g == SpanDigits(line, f)
    IN IF /\ a - 1 <= Len(line)
          /\ Lower(SubSeq(line, i, a - 1)) = StepWords.step
          /\ b > a
          /\ c > b
          /\ d > c
          /\ e - 1 <= Len(line)
          /\ Lower(SubSeq(line, d, e - 1)) = StepWords.of
          /\ f > e
          /\ g > f
       THEN <<SubSeq(line, b, c - 1), SubSeq(line, f, g - 1)>>
       ELSE <<>>

\* STEP_PATTERN.search(line): the leftmost match
StepSearch(line) ==
    LET hits == {i \in 1..Len(line) : StepMatchAt(line, i) # <<>>} IN
    IF hits = {} THEN <<>>
    ELSE StepMatchAt(line, CHOOSE i \in hits : \A j \in hits : i <= j)

(***************************************************************************)
(* SSHWorker.run_install: events pushed to the callback                    *)
(***************************************************************************)
\* self.log(message, level)
LogEvent(message, level) == [type |-> "log", message |-> message, level |-> level]

\* update_progress(int(m.group(1)), int(m.group(2)), f"Step {..}/{..}")
ProgressEvent(m) ==
    [type |-> "progress", current |-> StrToInt(m[1]), total |-> StrToInt(m[2]),
     text |-> <<"S","t","e","p"," ">> \o m[1] \o <<"/">> \o m[2]]

\* the fixed texts of the log messages and of the exceptions they quote
Msg ==
    [starting |->
        <<"[","R","U","N","]"," ","S","t","a","r","t","i","n","g"," ","i",
          "n","s","t","a","l","l","a","t","i","o","n"," ","(","b","r","a",
          "n","c","h","=","m","a","i","n",","," ","m","o","d","e","=","o",
          "n","l","i","n","e",")">>,
     password_sent |->
        <<"[","S","U","D","O","]"," ","P","a","s","s","w","o","r","d"," ",
          "s","e","n","t">>,
     completed |->
        <<"I","n","s","t","a","l","l","a","t","i","o","n"," ","c","o","m",
          "p","l","e","t","e","d"," ","s","u","c","c","e","s","s","f","u",
          "l","l","y","!">>,
     failed |->
        <<"I","n","s","t","a","l","l","a","t","i","o","n"," ","f","a","i",
          "l","e","d"," ","w","i","t","h"," ","e","x","i","t"," ","c","o",
          "d","e"," ">>,
     error |->
        <<"E","r","r","o","r"," ","d","u","r","i","n","g"," ","i","n","s",
          "t","a","l","l","a","t","i","o","n",":"," ">>,
     not_connected |->
        <<"S","S","H"," ","c","l","i","e","n","t"," ","i","s"," ","n","o",
          "t"," ","c","o","n","n","e","c","t","e","d">>,
     socket_closed |->
        <<"S","o","c","k","e","t"," ","i","s"," ","c","l","o","s","e","d">>]

\* the body of "for line in text.splitlines()": the poll loop looks for the
\* step marker (steps = TRUE), the drain loop only logs (steps = FALSE)
LineEvents(line, steps) ==
    IF Strip(line) = <<>> THEN <<>>
    ELSE <<LogEvent(line, "info")>> \o
         (IF steps /\ StepSearch(line) # <<>>
          THEN <<ProgressEvent(StepSearch(line))>>
          ELSE <<>>)

RECURSIVE ChunkEvents(_, _)
ChunkEvents(lines, steps) ==
    IF lines = <<>> THEN <<>>
    ELSE LineEvents(Head(lines), steps) \o ChunkEvents(Tail(lines), steps)

(***************************************************************************)
(* SSHWorker.run_install: the remote process and the channel               *)
(***************************************************************************)
\* lines the remote command can write: two step lines (one in lower case,
\* ended by "\r\n" as a pseudo-terminal does) and the prompt of sudo for a
\* user whose name is a two-byte character
RemoteLines ==
    {<<"S","t","e","p"," ","3"," ","o","f"," ","8","\n">>,
     <<"s","t","e","p"," ","4"," ","o","f"," ","1","2","\r","\n">>,
     <<"[","s","u","d","o","]"," ","p","a","s","s","w","o","r","d"," ","f",
       "o","r"," ",Utf8.lead,Utf8.cont,":"," ">>}

\* what the remote command writes before it exits: up to n of the lines
RECURSIVE StreamsOf(_)
StreamsOf(n) ==
    IF n = 0 THEN {<<>>}
    ELSE StreamsOf(n - 1) \cup {s \o l : s \in StreamsOf(n - 1), l \in RemoteLines}

\* self._config
InstallConfig == [sudo_password |-> <<>>, password |-> <<"p","w">>]

\* self._config.sudo_password or self._config.password or ""
SudoPassword(config) ==
    IF config.sudo_password # <<>> THEN config.sudo_password
    ELSE IF config.password # <<>> THEN config.password
    ELSE <<>>

\* b"[sudo]" and b"password for"
PromptMarks ==
    {<<"[","s","u","d","o","]">>,
     <<"p","a","s","s","w","o","r","d"," ","f","o","r">>}

\* b"[sudo]" in lower_buff or b"password for" in lower_buff
PromptSeen(buff) == \E mark \in PromptMarks : Contains(Lower(buff), mark)

\* the bytes written by the remote process that recv has not returned yet
Available == SubSeq(i_stream, i_rcvd + 1, i_sent)

RecvSize == 4096

\* chan.recv(4096)
Recv(avail) == SubSeq(avail, 1, IF Len(avail) <= RecvSize THEN Len(avail) ELSE RecvSize)

\* a worker nobody has called run_install on
IIdle ==
    /\ i_stream = <<>>
    /\ i_sent = 0
    /\ i_writes = 0
    /\ i_exit_status = -1
    /\ i_client = FALSE
    /\ i_pc = "idle"
    /\ i_rcvd = 0
    /\ i_buff = <<>>
    /\ i_pw_sent = FALSE
    /\ i_sends = <<>>
    /\ i_events = <<>>
    /\ i_reads = <<>>
    /\ i_rc = -1
    /\ i_ret = "none"

\* a worker, connected or not, and the output its remote command will write
IInit ==
    /\ i_client \in BOOLEAN
    /\ i_stream \in (IF i_client THEN StreamsOf(MaxLines) ELSE {<<>>})
    /\ i_sent = 0
    /\ i_writes = 0
    /\ i_exit_status = -1
    /\ i_pc = "idle"
    /\ i_rcvd = 0
    /\ i_buff = <<>>
    /\ i_pw_sent = FALSE
    /\ i_sends = <<>>
    /\ i_events = <<>>
    /\ i_reads = <<>>
    /\ i_rc = -1
    /\ i_ret = "none"

\* the remote command writes its next k bytes (its last write, when the
\* number of writes is exhausted, carries all that is left)
RemoteProduce(k) ==
    /\ i_pc \in {"recv", "pw", "exit"}
    /\ i_exit_status = -1
    /\ i_writes < MaxWrites
    /\ k >= 1
    /\ i_sent + k <= Len(i_stream)
    /\ i_writes = MaxWrites - 1 => i_sent + k = Len(i_stream)
    /\ i_sent' = i_sent + k
    /\ i_writes' = i_writes + 1
    /\ UNCHANGED <<i_stream, i_exit_status, i_client, i_pc, i_rcvd, i_buff,
                   i_pw_sent, i_sends, i_events, i_reads, i_rc, i_ret>>
    /\ UNCHANGED <<dvars, avars, pvars, xvars>>

\* the remote command exits with status rc once it has written everything
RemoteExit(rc) ==
    /\ i_pc \in {"recv", "pw", "exit"}
    /\ i_exit_status = -1
    /\ i_sent = Len(i_stream)
    /\ i_exit_status' = rc
    /\ UNCHANGED <<i_stream, i_sent, i_writes, i_client, i_pc, i_rcvd, i_buff,
                   i_pw_sent, i_sends, i_events, i_reads, i_rc, i_ret>>
    /\ UNCHANGED <<dvars, avars, pvars, xvars>>

(***************************************************************************)
(* SSHWorker.run_install: the call and its poll loop                       *)
(***************************************************************************)
\* from the first line to the first test of the loop; _ensure_connected
\* raises when there is no client and the handler of the call returns False
RunInstallStart ==
    /\ i_pc = "idle"
    /\ IF i_client
       THEN /\ i_events' = Append(i_events, LogEvent(Msg.starting, "info"))
            /\ i_pw_sent' = FALSE
            /\ i_buff' = <<>>
            /\ i_pc' = "recv"
            /\ UNCHANGED i_ret
       ELSE /\ i_events' = Append(i_events,
                                  LogEvent(Msg.error \o Msg.not_connected, "error"))
            /\ i_ret' = "False"
            /\ i_pc' = "done"
            /\ UNCHANGED <<i_pw_sent, i_buff>>
    /\ UNCHANGED <<i_stream, i_sent, i_writes, i_exit_status, i_client, i_rcvd,
                   i_sends, i_reads, i_rc>>
    /\ UNCHANGED <<dvars, avars, pvars, xvars>>

\* a fault before the loop on a connected worker: exec_simple raises for
\* the chmod command, or open_session/get_pty/exec_command raises after the
\* starting message was logged; the handler of the call returns False
RunInstallStartRaise(at) ==
    /\ i_pc = "idle"
    /\ i_client
    /\ i_events' = i_events \o
           (IF at = "chmod" THEN <<>> ELSE <<LogEvent(Msg.starting, "info")>>) \o
           <<LogEvent(Msg.error \o Msg.socket_closed, "error")>>
    /\ i_ret' = "False"
    /\ i_pc' = "done"
    /\ UNCHANGED <<i_stream, i_sent, i_writes, i_exit_status, i_client, i_rcvd,
                   i_buff, i_pw_sent, i_sends, i_reads, i_rc>>
    /\ UNCHANGED <<dvars, avars, pvars, xvars>>

\* whether the thread is held at the read of the loop: recv is called only
\* after recv_ready() answered that data is there, so it never is (a read
\* made without the test would hold the thread while nothing is available)
RecvWaitsMutBlocking(avail) == avail = <<>>

RecvWaits(avail) == FALSE

\* "if chan.recv_ready():" and its block
LoopRecv ==
    /\ i_pc = "recv"
    /\ ~RecvWaits(Available)
    /\ IF Available # <<>>
       THEN LET data == Recv(Available)
                text == Decode(data)
            IN /\ i_rcvd' = i_rcvd + Len(data)
               /\ i_buff' = i_buff \o data
               /\ i_events' = i_events \o ChunkEvents(SplitLines(text), TRUE)
               /\ i_reads' = Append(i_reads, Len(data))
       ELSE UNCHANGED <<i_rcvd, i_buff, i_events, i_reads>>
    /\ i_pc' = "pw"
    /\ UNCHANGED <<i_stream, i_sent, i_writes, i_exit_status, i_client, i_pw_sent,
                   i_sends, i_rc, i_ret>>
    /\ UNCHANGED <<dvars, avars, pvars, xvars>>

\* the test made before the password is written
NeedPasswordMutUnprompted(pw_sent, buff) == ~pw_sent

NeedPasswordMutResend(pw_sent, buff) == PromptSeen(buff)

NeedPassword(pw_sent, buff) == ~pw_sent /\ PromptSeen(buff)

\* "if not pw_sent:" and its block, chan.send returning normally
LoopPassword ==
    /\ i_pc = "pw"
    /\ IF NeedPassword(i_pw_sent, i_buff)
       THEN /\ i_sends' = Append(i_sends, SudoPassword(InstallConfig) \o <<"\n">>)
            /\ i_pw_sent' = TRUE
            /\ i_buff' = <<>>
            /\ i_events' = Append(i_events, LogEvent(Msg.password_sent, "info"))
       ELSE UNCHANGED <<i_sends, i_pw_sent, i_buff, i_events>>
    /\ i_pc' = "exit"
    /\ UNCHANGED <<i_stream, i_sent, i_writes, i_exit_status, i_client, i_rcvd,
                   i_reads, i_rc, i_ret>>
    /\ UNCHANGED <<dvars, avars, pvars, xvars>>

\* chan.send raises on a channel the exited remote side has closed; the
\* handler of the call logs the error and returns False
LoopPasswordRaise ==
    /\ i_pc = "pw"
    /\ NeedPassword(i_pw_sent, i_buff)
    /\ i_exit_status # -1
    /\ i_events' = Append(i_events, LogEvent(Msg.error \o Msg.socket_closed, "error"))
    /\ i_ret' = "False"
    /\ i_pc' = "done"
    /\ UNCHANGED <<i_stream, i_sent, i_writes, i_exit_status, i_client, i_rcvd,
                   i_buff, i_pw_sent, i_sends, i_reads, i_rc>>
    /\ UNCHANGED <<dvars, avars, pvars, xvars>>

\* the events of the drain loop: recv(4096) until nothing is left
RECURSIVE DrainEvents(_)
DrainEvents(avail) ==
    IF avail = <<>> THEN <<>>
    ELSE ChunkEvents(SplitLines(Decode(Recv(avail))), FALSE) \o
         DrainEvents(SubSeq(avail, Len(Recv(avail)) + 1, Len(avail)))

\* "return rc == 0"
ReturnOfMutAlways(rc) == "True"

ReturnOf(rc) == IF rc = 0 THEN "True" ELSE "False"

\* "if chan.exit_status_ready():" and its block, else time.sleep(0.1)
LoopExit ==
    /\ i_pc = "exit"
    /\ IF i_exit_status # -1
       THEN /\ i_rcvd' = i_rcvd + Len(Available)
            /\ i_rc' = i_exit_status
            /\ i_events' = i_events \o DrainEvents(Available) \o
                   <<IF i_exit_status = 0 THEN LogEvent(Msg.completed, "success")
                     ELSE LogEvent(Msg.failed \o IntToStr(i_exit_status), "error")>>
            /\ i_ret' = ReturnOf(i_exit_status)
            /\ i_pc' = "done"
       ELSE /\ i_pc' = "recv"
            /\ UNCHANGED <<i_rcvd, i_rc, i_events, i_ret>>
    /\ UNCHANGED <<i_stream, i_sent, i_writes, i_exit_status, i_client, i_buff,
                   i_pw_sent, i_sends, i_reads>>
    /\ UNCHANGED <<dvars, avars, pvars, xvars>>

(***************************************************************************)
(* BJORNWebAPI (app.py): connecting, disconnecting and installing          *)
(***************************************************************************)
\* the SSHWorker objects: connect thread c constructs worker c; 0 is None
WorkerIds == 1..MaxConnects

InstallIds == 1..MaxInstalls

\* BJORNWebAPI.__init__
PIdle ==
    /\ ssh_worker = 0
    /\ w_client = [w \in WorkerIds |-> FALSE]
    /\ w_connected = [w \in WorkerIds |-> FALSE]
    /\ app_connected = FALSE
    /\ installation_mode = FALSE
    /\ connects = [c \in WorkerIds |-> "none"]
    /\ installs = [j \in InstallIds |-> [pc |-> "none", w |-> 0]]

\* the next thread of a family that has not been started
NextUnstarted(pcs) ==
    CHOOSE i \in DOMAIN pcs :
        pcs[i] = "none" /\ \A j \in DOMAIN pcs : pcs[j] = "none" => i <= j

\* SSHWorker.close
CloseConnected(conn, w) == IF w = 0 THEN conn ELSE [conn EXCEPT ![w] = FALSE]

CloseClient(client, w) == IF w = 0 THEN client ELSE [client EXCEPT ![w] = FALSE]

\* connect_ssh: closes the current worker and starts connect_thread
ConnectSsh ==
    /\ \E c \in WorkerIds : connects[c] = "none"
    /\ w_connected' = CloseConnected(w_connected, ssh_worker)
    /\ w_client' = CloseClient(w_client, ssh_worker)
    /\ connects' = [connects EXCEPT ![NextUnstarted(connects)] = "new"]
    /\ UNCHANGED <<ssh_worker, app_connected, installation_mode, installs>>
    /\ UNCHANGED <<dvars, avars, ivars, xvars>>

\* connect_thread: self.ssh_worker = SSHWorker(ssh_config, self._api_callback)
ConnectThreadCreate(c) ==
    /\ connects[c] = "new"
    /\ ssh_worker' = c
    /\ connects' = [connects EXCEPT ![c] = "connect"]
    /\ UNCHANGED <<w_client, w_connected, app_connected, installation_mode, installs>>
    /\ UNCHANGED <<dvars, avars, ivars, xvars>>

\* connect_thread: success = self.ssh_worker.connect(), on the worker the
\* attribute holds at that moment; connect ends connected ("ok"), in its
\* exception handler ("raise") or on the missing password ("nopass")
ConnectThreadConnect(c, how) ==
    /\ connects[c] = "connect"
    /\ IF ssh_worker = 0
       THEN /\ connects' = [connects EXCEPT ![c] = "done"]
            /\ UNCHANGED <<w_client, w_connected>>
       ELSE /\ connects' = [connects EXCEPT ![c] = IF how = "ok" THEN "ok" ELSE "failed"]
            /\ w_client' = IF how = "ok" THEN [w_client EXCEPT ![ssh_worker] = TRUE]
                           ELSE w_client
            /\ w_connected' = IF how = "ok" THEN [w_connected EXCEPT ![ssh_worker] = TRUE]
                              ELSE IF how = "raise"
                              THEN [w_connected EXCEPT ![ssh_worker] = FALSE]
                              ELSE w_connected
    /\ UNCHANGED <<ssh_worker, app_connected, installation_mode, installs>>
    /\ UNCHANGED <<dvars, avars, ivars, xvars>>

\* connect_thread: "if success: self._connected = True ... else: ... = False"
ConnectThreadPublish(c) ==
    /\ connects[c] \in {"ok", "failed"}
    /\ app_connected' = (connects[c] = "ok")
    /\ connects' = [connects EXCEPT ![c] = "done"]
    /\ UNCHANGED <<ssh_worker, w_client, w_connected, installation_mode, installs>>
    /\ UNCHANGED <<dvars, avars, ivars, xvars>>

\* disconnect_ssh
DisconnectSsh ==
    /\ w_connected' = CloseConnected(w_connected, ssh_worker)
    /\ w_client' = CloseClient(w_client, ssh_worker)
    /\ ssh_worker' = 0
    /\ app_connected' = FALSE
    /\ installation_mode' = FALSE
    /\ UNCHANGED <<connects, installs>>
    /\ UNCHANGED <<dvars, avars, ivars, xvars>>

\* "if not self.ssh_worker or not self.ssh_worker._connected" of install_bjorn
InstallRefused(worker, conn) == worker = 0 \/ ~conn[worker]

\* install_bjorn: returns an error, or sets the installation mode and starts
\* install_thread
InstallBjorn ==
    /\ \E j \in InstallIds : installs[j].pc = "none"
    /\ LET j == NextUnstarted([i \in InstallIds |-> installs[i].pc]) IN
       IF InstallRefused(ssh_worker, w_connected)
       THEN /\ installs' = [installs EXCEPT ![j].pc = "refused"]
            /\ UNCHANGED installation_mode
       ELSE /\ installs' = [installs EXCEPT ![j].pc = "start"]
            /\ installation_mode' = TRUE
    /\ UNCHANGED <<ssh_worker, w_client, w_connected, app_connected, connects>>
    /\ UNCHANGED <<dvars, avars, ivars, xvars>>

\* install_thread: self.ssh_worker.upload_install_scripts(...) (or upload_file)
\* begins on the worker the attribute holds; without a worker or a client it
\* raises and the thread's handler clears the installation mode
InstallUploadBegin(j) ==
    /\ installs[j].pc = "start"
    /\ IF ssh_worker = 0 \/ ~w_client[ssh_worker]
       THEN /\ installs' = [installs EXCEPT ![j].pc = "done"]
            /\ installation_mode' = FALSE
       ELSE /\ installs' = [installs EXCEPT ![j] = [pc |-> "uploading", w |-> ssh_worker]]
            /\ UNCHANGED installation_mode
    /\ UNCHANGED <<ssh_worker, w_client, w_connected, app_connected, connects>>
    /\ UNCHANGED <<dvars, avars, ivars, xvars>>

\* install_thread: the upload returns, or raises into the thread's handler
InstallUploadEnd(j, ok) ==
    /\ installs[j].pc = "uploading"
    /\ IF ok
       THEN /\ installs' = [installs EXCEPT ![j] = [pc |-> "uploaded", w |-> 0]]
            /\ UNCHANGED installation_mode
       ELSE /\ installs' = [installs EXCEPT ![j] = [pc |-> "done", w |-> 0]]
            /\ installation_mode' = FALSE
    /\ UNCHANGED <<ssh_worker, w_client, w_connected, app_connected, connects>>
    /\ UNCHANGED <<dvars, avars, ivars, xvars>>

\* install_thread: self.ssh_worker.run_install(...) begins on the worker the
\* attribute holds; run_install returns False at once without a client
InstallRunBegin(j) ==
    /\ installs[j].pc = "uploaded"
    /\ IF ssh_worker = 0
       THEN /\ installs' = [installs EXCEPT ![j].pc = "done"]
            /\ installation_mode' = FALSE
       ELSE /\ installs' = [installs EXCEPT ![j] =
                   IF w_client[ssh_worker] THEN [pc |-> "running", w |-> ssh_worker]
                   ELSE [pc |-> "finish", w |-> 0]]
            /\ UNCHANGED installation_mode
    /\ UNCHANGED <<ssh_worker, w_client, w_connected, app_connected, connects>>
    /\ UNCHANGED <<dvars, avars, ivars, xvars>>

\* install_thread: run_install returns
InstallRunEnd(j) ==
    /\ installs[j].pc = "running"
    /\ installs' = [installs EXCEPT ![j] = [pc |-> "finish", w |-> 0]]
    /\ UNCHANGED <<ssh_worker, w_client, w_connected, app_connected,
                   installation_mode, connects>>
    /\ UNCHANGED <<dvars, avars, ivars, xvars>>

\* install_thread: self._installation_mode = False
InstallFinish(j) ==
    /\ installs[j].pc = "finish"
    /\ installs' = [installs EXCEPT ![j].pc = "done"]
    /\ installation_mode' = FALSE
    /\ UNCHANGED <<ssh_worker, w_client, w_connected, app_connected, connects>>
    /\ UNCHANGED <<dvars, avars, ivars, xvars>>

(***************************************************************************)
(* SSHWorker (ssh/worker.py): connect and close                            *)
(***************************************************************************)
\* the key files the worker looks at: _PRIVATE_KEY_NAMES (a file of ~/.ssh
\* is named by its base name) and the value of SSHConfig.key_path when the
\* user names a key file (in expanded form)
KeyStore ==
    [names |-> <<"id_ed25519", "id_rsa", "id_ecdsa">>, explicit |-> "keys/bjorn_key"]

\* SSHWorker._resolve_key_path; files maps a path to what it holds: "absent",
\* "valid" (a private key), "invalid" (text that is no private key) or
\* "unreadable" (a file that cannot be read as text)
ResolveKeyPath(config, files) ==
    IF config.key_path # ""
    THEN IF files[config.key_path] # "absent" THEN config.key_path ELSE ""
    ELSE LET hits == {n \in DOMAIN KeyStore.names : files[KeyStore.names[n]] # "absent"}
         IN  IF hits = {} THEN ""
             ELSE KeyStore.names[CHOOSE n \in hits : \A m \in hits : n <= m]

\* paramiko.SSHClient.connect with the keyword arguments the worker builds:
\* "ok", or the class of the exception it raises.  The socket is opened
\* first; a key file is then read (SSHException for text that is no key,
\* the OSError of open() for a file that cannot be read); the server
\* accepts or rejects the credential.
ClientConnect(key_filename, password, files, env) ==
    IF ~env.reachable THEN "socket.error"
    ELSE IF key_filename # ""
    THEN CASE files[key_filename] = "absent" -> "FileNotFoundError"
           [] files[key_filename] = "invalid" -> "SSHException"
           [] files[key_filename] = "unreadable" -> "PermissionError"
           [] OTHER -> IF env.key_ok THEN "ok" ELSE "AuthenticationException"
    ELSE IF password # "" /\ env.pw_ok THEN "ok" ELSE "AuthenticationException"

\* the texts the worker logs in connect, close and stream_logs
SshMsg ==
    [via_key      |-> "[SSH] Connected via key: ",
     key_failed   |-> "[SSH] Key auth failed, falling back to password",
     no_password  |-> "[SSH] No password available for fallback auth",
     via_password |-> "[SSH] Connected via password",
     failed       |-> "[SSH] Connection failed: ",
     disconnected |-> "[SSH] Disconnected.",
     logs_starting |-> "[LOGS] Starting log stream...",
     logs_bjorn   |-> "[BJORN] ",
     logs_error   |-> "Log streaming error: "]

\* connect: the handler of the outer try, entered with the events logged so far
ConnectionFailedMutRaise(events, tried, exc) ==
    [ret |-> "raise", events |-> events, tried |-> tried, connected |-> "same"]

ConnectionFailed(events, tried, exc) ==
    [ret |-> "False",
     events |-> Append(events, LogEvent(<<SshMsg.failed, exc>>, "error")),
     tried |-> tried, connected |-> "no"]

\* SSHWorker.connect: what it returns, the events it logs, the methods it
\* tries, and what becomes of _connected ("yes" also stores the new client)
ConnectResult(config, files, env) ==
    LET key_path == ResolveKeyPath(config, files)
        key_out == ClientConnect(key_path, "", files, env)
        pw_out == ClientConnect("", config.password, files, env)
        caught == {"AuthenticationException", "SSHException", "FileNotFoundError"}
        ByPassword(events, tried) ==
            IF config.password = ""
            THEN [ret |-> "False",
                  events |-> Append(events, LogEvent(<<SshMsg.no_password>>, "error")),
                  tried |-> tried, connected |-> "same"]
            ELSE IF pw_out = "ok"
            THEN [ret |-> "True",
                  events |-> Append(events, LogEvent(<<SshMsg.via_password>>, "info")),
                  tried |-> Append(tried, "password"), connected |-> "yes"]
            ELSE ConnectionFailed(events, Append(tried, "password"), pw_out)
    IN  IF key_path = "" THEN ByPassword(<<>>, <<>>)
        ELSE IF key_out = "ok"
        THEN [ret |-> "True",
              events |-> <<LogEvent(<<SshMsg.via_key, key_path>>, "info")>>,
              tried |-> <<"key">>, connected |-> "yes"]
        ELSE IF key_out \in caught
        THEN ByPassword(<<LogEvent(<<SshMsg.key_failed>>, "warning")>>, <<"key">>)
        ELSE ConnectionFailed(<<>>, <<"key">>, key_out)

\* SSHWorker.__init__, for every configuration and every content of the key files
SIdle ==
    /\ s_config = [key_path |-> "", password |-> ""]
    /\ s_files = [p \in {KeyStore.explicit} \cup {KeyStore.names[n] : n \in 1..3} |-> "absent"]
    /\ s_client = 0
    /\ s_connected = FALSE
    /\ s_clients = 0
    /\ s_calls = 0
    /\ s_op = "none"
    /\ s_env = [reachable |-> FALSE, key_ok |-> FALSE, pw_ok |-> FALSE]
    /\ s_tried = <<>>
    /\ s_events = <<>>
    /\ s_ret = "none"
    /\ s_hist = <<>>

SInit ==
    /\ s_config \in [key_path : {"", KeyStore.explicit}, password : {"", "secret"}]
    /\ s_files \in [{KeyStore.explicit} \cup {KeyStore.names[n] : n \in 1..3}
                      -> {"absent", "valid", "invalid", "unreadable"}]
    /\ s_client = 0
    /\ s_connected = FALSE
    /\ s_clients = 0
    /\ s_calls = 0
    /\ s_op = "none"
    /\ s_env = [reachable |-> FALSE, key_ok |-> FALSE, pw_ok |-> FALSE]
    /\ s_tried = <<>>
    /\ s_events = <<>>
    /\ s_ret = "none"
    /\ s_hist = <<>>

\* SSHWorker.connect, called on a worker that holds no connection (the
\* application connects a worker once, right after creating it)
Connect(env) ==
    /\ s_calls < MaxWorkerCalls
    /\ s_client = 0 /\ ~s_connected
    /\ LET r == ConnectResult(s_config, s_files, env)
       IN  /\ s_ret' = r.ret
           /\ s_events' = r.events
           /\ s_tried' = r.tried
           /\ s_clients' = s_clients + 1
           /\ s_client' = IF r.connected = "yes" THEN s_clients + 1 ELSE s_client
           /\ s_connected' = CASE r.connected = "yes" -> TRUE
                               [] r.connected = "no" -> FALSE
                               [] OTHER -> s_connected
    /\ s_calls' = s_calls + 1
    /\ s_op' = "connect"
    /\ s_env' = env
    /\ s_hist' = Append(s_hist, [op |-> "connect", ret |-> s_ret', close_raised |-> FALSE])
    /\ UNCHANGED <<s_config, s_files>>
    /\ UNCHANGED <<dvars, avars, ivars, pvars, lvars, evars, bvars, ovars, kvars, qvars, mvars>>

\* close: what becomes of _client and how the call ends, when closing the
\* paramiko client raises or not
CloseOutcomeMutNoFinally(client, close_raises) ==
    IF client # 0 /\ close_raises
    THEN [client |-> client, ret |-> "raise"]
    ELSE [client |-> 0, ret |-> "None"]

CloseOutcome(client, close_raises) ==
    IF client # 0
    THEN [client |-> 0, ret |-> "None"]
    ELSE [client |-> client, ret |-> "None"]

\* SSHWorker.close
Close(close_raises) ==
    /\ s_calls < MaxWorkerCalls
    /\ s_connected' = FALSE
    /\ s_client' = CloseOutcome(s_client, close_raises).client
    /\ s_ret' = CloseOutcome(s_client, close_raises).ret
    /\ s_events' = <<LogEvent(<<SshMsg.disconnected>>, "warning")>>
    /\ s_calls' = s_calls + 1
    /\ s_op' = "close"
    /\ s_tried' = <<>>
    /\ s_hist' = Append(s_hist, [op |-> "close", ret |-> s_ret',
                                  close_raised |-> s_client # 0 /\ close_raises])
    /\ UNCHANGED <<s_config, s_files, s_clients, s_env>>
    /\ UNCHANGED <<dvars, avars, ivars, pvars, lvars, evars, bvars, ovars, kvars, qvars, mvars>>

(***************************************************************************)
(* SSHWorker.stream_logs (ssh/worker.py)                                   *)
(***************************************************************************)
\* data.decode("utf-8", errors="replace"): as Decode, but a byte of an
\* incomplete sequence becomes the replacement character
RECURSIVE DecodeReplace(_)
DecodeReplace(data) ==
    IF data = <<>> THEN <<>>
    ELSE IF Head(data) = Utf8.lead /\ Len(data) >= 2 /\ data[2] = Utf8.cont
    THEN <<Utf8.char>> \o DecodeReplace(SubSeq(data, 3, Len(data)))
    ELSE IF Head(data) \in {Utf8.lead, Utf8.cont}
    THEN <<Utf8.replacement>> \o DecodeReplace(Tail(data))
    ELSE <<Head(data)>> \o DecodeReplace(Tail(data))

\* a worker nobody has called stream_logs on
LIdle ==
    /\ l_client = FALSE
    /\ l_stream = <<>>
    /\ l_sent = 0
    /\ l_exit = FALSE
    /\ l_stop = FALSE
    /\ l_pc = "idle"
    /\ l_rcvd = 0
    /\ l_lines = <<>>
    /\ l_observed = FALSE
    /\ l_closed = FALSE
    /\ l_events = <<>>

\* a worker, connected or not, and the output of the remote journalctl: up
\* to MaxLogLines lines, among them a blank one and one with a two-byte
\* character, ended by "\r\n"
LInit ==
    LET lines == {<<"o", "k", "\n">>, <<" ", "\n">>,
                  <<Utf8.lead, Utf8.cont, " ", "b", "\r", "\n">>}
        RECURSIVE Streams(_)
        Streams(n) == IF n = 0 THEN {<<>>}
                      ELSE Streams(n - 1) \cup
                           {a \o b : a \in Streams(n - 1), b \in lines}
    IN  /\ l_client \in BOOLEAN
        /\ l_stream \in (IF l_client THEN Streams(MaxLogLines) ELSE {<<>>})
        /\ l_sent = 0
        /\ l_exit = FALSE
        /\ l_stop = FALSE
        /\ l_pc = "idle"
        /\ l_rcvd = 0
        /\ l_lines = <<>>
        /\ l_observed = FALSE
        /\ l_closed = FALSE
        /\ l_events = <<>>

\* the stop event is set (stop_log_stream, disconnect_ssh)
LogsStop ==
    /\ ~l_stop
    /\ l_stop' = TRUE
    /\ UNCHANGED <<l_client, l_stream, l_sent, l_exit, l_pc, l_rcvd, l_lines,
                   l_observed, l_closed, l_events>>
    /\ UNCHANGED <<dvars, avars, ivars, pvars, svars, evars, bvars, ovars, kvars, qvars, mvars>>

\* the remote command writes its next k bytes
LogsProduce(k) ==
    /\ l_pc \in {"while", "for"}
    /\ ~l_exit
    /\ k >= 1
    /\ l_sent + k <= Len(l_stream)
    /\ l_sent' = l_sent + k
    /\ UNCHANGED <<l_client, l_stream, l_exit, l_stop, l_pc, l_rcvd, l_lines,
                   l_observed, l_closed, l_events>>
    /\ UNCHANGED <<dvars, avars, ivars, pvars, svars, evars, bvars, ovars, kvars, qvars, mvars>>

\* the remote command exits once it has written everything
LogsExit ==
    /\ l_pc \in {"while", "for"}
    /\ ~l_exit
    /\ l_sent = Len(l_stream)
    /\ l_exit' = TRUE
    /\ UNCHANGED <<l_client, l_stream, l_sent, l_stop, l_pc, l_rcvd, l_lines,
                   l_observed, l_closed, l_events>>
    /\ UNCHANGED <<dvars, avars, ivars, pvars, svars, evars, bvars, ovars, kvars, qvars, mvars>>

\* from the first line to the first test of the loop: _ensure_connected
\* raises when there is no client, exec_command raises when raises is TRUE;
\* the handler of the call logs the error unless the stop event is set
LogsStart(raises) ==
    /\ l_pc = "idle"
    /\ l_events' = l_events \o
           (IF l_client THEN <<LogEvent(<<SshMsg.logs_starting>>, "info")>> ELSE <<>>) \o
           (IF (~l_client \/ raises) /\ ~l_stop
            THEN <<LogEvent(<<SshMsg.logs_error>>, "error")>> ELSE <<>>)
    /\ l_pc' = IF ~l_client \/ raises THEN "done" ELSE "while"
    /\ UNCHANGED <<l_client, l_stream, l_sent, l_exit, l_stop, l_rcvd, l_lines,
                   l_observed, l_closed>>
    /\ UNCHANGED <<dvars, avars, ivars, pvars, svars, evars, bvars, ovars, kvars, qvars, mvars>>

\* "while not stop_event.is_set():" and the if/elif/else below it, up to
\* the for loop
LogsWhile ==
    /\ l_pc = "while"
    /\ IF l_stop
       THEN /\ l_observed' = TRUE
            /\ l_pc' = "close"
            /\ UNCHANGED <<l_rcvd, l_lines>>
       ELSE IF l_rcvd < l_sent
       THEN /\ l_rcvd' = l_rcvd + Len(Recv(SubSeq(l_stream, l_rcvd + 1, l_sent)))
            /\ l_lines' = SplitLines(DecodeReplace(
                              Recv(SubSeq(l_stream, l_rcvd + 1, l_sent))))
            /\ l_pc' = "for"
            /\ UNCHANGED l_observed
       ELSE IF l_exit
       THEN /\ l_pc' = "close"
            /\ UNCHANGED <<l_rcvd, l_lines, l_observed>>
       ELSE UNCHANGED <<l_rcvd, l_lines, l_observed, l_pc>>
    /\ UNCHANGED <<l_client, l_stream, l_sent, l_exit, l_stop, l_closed, l_events>>
    /\ UNCHANGED <<dvars, avars, ivars, pvars, svars, evars, bvars, ovars, kvars, qvars, mvars>>

\* one pass of "for line in data.splitlines():", or its end
LogsFor ==
    /\ l_pc = "for"
    /\ IF l_lines = <<>>
       THEN /\ l_pc' = "while"
            /\ UNCHANGED <<l_lines, l_observed, l_events>>
       ELSE IF l_stop
       THEN /\ l_observed' = TRUE
            /\ l_lines' = <<>>
            /\ l_pc' = "while"
            /\ UNCHANGED l_events
       ELSE /\ l_events' = IF Strip(Head(l_lines)) = <<>> THEN l_events
                           ELSE Append(l_events,
                                       LogEvent(<<SshMsg.logs_bjorn, Head(l_lines)>>, "info"))
            /\ l_lines' = Tail(l_lines)
            /\ UNCHANGED <<l_pc, l_observed>>
    /\ UNCHANGED <<l_client, l_stream, l_sent, l_exit, l_stop, l_rcvd, l_closed>>
    /\ UNCHANGED <<dvars, avars, ivars, pvars, svars, evars, bvars, ovars, kvars, qvars, mvars>>

\* channel.close() after the loop
LogsCloseMutLeak ==
    /\ l_pc = "close"
    /\ l_pc' = "done"
    /\ UNCHANGED <<l_client, l_stream, l_sent, l_exit, l_stop, l_rcvd, l_lines,
                   l_observed, l_closed, l_events>>
    /\ UNCHANGED <<dvars, avars, ivars, pvars, svars, evars, bvars, ovars, kvars, qvars, mvars>>

LogsClose ==
    /\ l_pc = "close"
    /\ l_closed' = TRUE
    /\ l_pc' = "done"
    /\ UNCHANGED <<l_client, l_stream, l_sent, l_exit, l_stop, l_rcvd, l_lines,
                   l_observed, l_events>>
    /\ UNCHANGED <<dvars, avars, ivars, pvars, svars, evars, bvars, ovars, kvars, qvars, mvars>>

(***************************************************************************)
(* Discovery lifecycle (discovery/manager.py): start, stop, reset and the  *)
(* threads they start and join.  A "with lock:" block is one step; a       *)
(* sighting is the address only (the device key of a nameless device).     *)
(***************************************************************************)
\* the threads of the start() calls: the sweep, one of its workers, the
\* poller the sweep starts, the sweeper
ThreadIds == {"cidr", "worker", "poller", "sweeper"} \X (1..MaxStarts)

\* the addresses that answer on port 22, in the order of network.hosts()
LifeIps == [i \in 1..MaxLifeIps |-> i]

\* a thread: its position, the sighting it works on, and whether it has read
\* the stop flag as set
NoThread == [pc |-> "none", ip |-> 0, epoch |-> 0, base |-> 0, obs |-> FALSE]

\* Discovery.__init__
EIdle ==
    /\ e_stop = FALSE
    /\ e_zeroconf = FALSE
    /\ e_browsers = 0
    /\ e_handles = [cidr |-> <<>>, port8000 |-> <<>>, sweeper |-> <<>>]
    /\ e_thr = [th \in ThreadIds |-> NoThread]
    /\ e_queue = [g \in 1..MaxStarts |-> <<>>]
    /\ e_call = "idle"
    /\ e_gen = 0
    /\ e_calls = 0
    /\ e_clears = 0
    /\ e_seen = {}
    /\ e_alias = <<>>
    /\ e_registry = <<>>
    /\ e_emits = {}
    /\ e_owed = {}
    /\ e_first = 0
    /\ e_start = [fails |-> {}, zeroconf |-> FALSE, browsers |-> FALSE, cidr |-> FALSE,
                  sweeper |-> FALSE, errors |-> {}, ret |-> "none"]

\* start(): what each of its four try blocks leaves, given the stages that
\* raise; the browsers are attempted only with a Zeroconf object
StartOutcomeMutAbort(fails) ==
    [fails |-> fails,
     zeroconf |-> "zeroconf" \notin fails,
     browsers |-> fails \cap {"zeroconf", "browsers"} = {},
     cidr |-> fails \cap {"zeroconf", "browsers", "cidr"} = {},
     sweeper |-> fails = {},
     errors |-> {},
     ret |-> IF fails = {} THEN "None" ELSE "raise"]

StartOutcome(fails) ==
    [fails |-> fails,
     zeroconf |-> "zeroconf" \notin fails,
     browsers |-> fails \cap {"zeroconf", "browsers"} = {},
     cidr |-> "cidr" \notin fails,
     sweeper |-> "sweeper" \notin fails,
     errors |-> (fails \ {"browsers"}) \cup
                (IF "zeroconf" \notin fails THEN fails \cap {"browsers"} ELSE {}),
     ret |-> "None"]

\* the effect of start() on the object: the flag is cleared, the handles
\* are assigned (also when Thread.start raises) and the threads run (a
\* raise at the second browser leaves the first one in the list: the list
\* is then counted as empty)
StartEffect(o, handles) ==
    /\ e_stop' = FALSE
    /\ e_gen' = e_gen + 1
    /\ e_start' = o
    /\ e_zeroconf' = o.zeroconf
    /\ e_browsers' = IF o.browsers THEN 2 ELSE IF o.zeroconf THEN 0 ELSE e_browsers
    /\ e_handles' = [handles EXCEPT !.cidr = <<"cidr", e_gen + 1>>,
                                      !.sweeper = <<"sweeper", e_gen + 1>>]
    /\ e_thr' = [th \in ThreadIds |->
                    IF th = <<"cidr", e_gen + 1>> /\ o.cidr
                    THEN [NoThread EXCEPT !.pc = "begin"]
                    ELSE IF th = <<"sweeper", e_gen + 1>> /\ o.sweeper
                    THEN [NoThread EXCEPT !.pc = "loop"]
                    ELSE e_thr[th]]

\* start(), called on the new object
LifeStart(fails) ==
    /\ e_call = "idle" /\ e_gen = 0
    /\ e_calls' = e_calls + 1
    /\ StartEffect(StartOutcome(fails), e_handles)
    /\ UNCHANGED <<e_queue, e_call, e_clears, e_seen, e_alias, e_registry, e_emits,
                   e_owed, e_first>>
    /\ UNCHANGED <<dvars, avars, ivars, pvars, svars, lvars, bvars, ovars, kvars, qvars, mvars>>

\* stop(), or the stop() of reset(), up to the joins: the flag is set
LifeStopBegin(call) ==
    /\ e_call = "idle" /\ e_gen > 0
    /\ e_calls < MaxLifeCalls
    /\ call = "reset" => e_gen < MaxStarts
    /\ e_calls' = e_calls + 1
    /\ e_call' = call
    /\ e_stop' = TRUE
    /\ e_owed' = {th \in ThreadIds : e_thr[th].pc \notin {"none", "exited"}}
    /\ UNCHANGED <<e_zeroconf, e_browsers, e_handles, e_thr, e_queue, e_gen, e_clears,
                   e_seen, e_alias, e_registry, e_emits, e_first, e_start>>
    /\ UNCHANGED <<dvars, avars, ivars, pvars, svars, lvars, bvars, ovars, kvars, qvars, mvars>>

\* the rest of stop(): the join of the sweep returns when it has exited or
\* after the timeout (a worker can be in a reverse lookup for longer); the
\* poller and the sweeper read the flag every second and have exited when
\* their joins return; the browsers are cancelled and Zeroconf is closed
LifeStopEnd ==
    /\ e_call \in {"stop", "reset"}
    /\ \A h \in {"port8000", "sweeper"} :
          e_handles[h] # <<>> => e_thr[e_handles[h]].pc \in {"none", "exited"}
    /\ e_browsers' = 0
    /\ e_zeroconf' = FALSE
    /\ e_call' = IF e_call = "stop" THEN "idle" ELSE "clear"
    /\ UNCHANGED <<e_stop, e_handles, e_thr, e_queue, e_gen, e_calls, e_clears, e_seen,
                   e_alias, e_registry, e_emits, e_owed, e_first, e_start>>
    /\ UNCHANGED <<dvars, avars, ivars, pvars, svars, lvars, bvars, ovars, kvars, qvars, mvars>>

\* reset() after its stop(): the state is cleared, the handles are
\* forgotten and start() is called
LifeResetRestart(fails) ==
    /\ e_call = "clear"
    /\ e_call' = "idle"
    /\ e_clears' = e_clears + 1
    /\ e_seen' = {}
    /\ e_registry' = <<>>
    /\ e_alias' = <<>>
    /\ e_first' = 0
    /\ StartEffect(StartOutcome(fails),
                   [cidr |-> <<>>, port8000 |-> <<>>, sweeper |-> <<>>])
    /\ UNCHANGED <<e_queue, e_calls, e_emits, e_owed>>
    /\ UNCHANGED <<dvars, avars, ivars, pvars, svars, lvars, bvars, ovars, kvars, qvars, mvars>>

\* _scan_cidr_loop up to the joins: unless the flag is set, the addresses
\* are queued and the workers are started
CidrSpawn(g) ==
    /\ e_thr[<<"cidr", g>>].pc = "begin"
    /\ IF e_stop
       THEN /\ e_thr' = [e_thr EXCEPT ![<<"cidr", g>>].pc = "join",
                                      ![<<"cidr", g>>].obs = TRUE]
            /\ UNCHANGED e_queue
       ELSE /\ e_thr' = [e_thr EXCEPT ![<<"cidr", g>>].pc = "join",
                                      ![<<"worker", g>>].pc = "test"]
            /\ e_queue' = [e_queue EXCEPT ![g] = LifeIps]
    /\ UNCHANGED <<e_stop, e_zeroconf, e_browsers, e_handles, e_call, e_gen, e_calls,
                   e_clears, e_seen, e_alias, e_registry, e_emits, e_owed, e_first,
                   e_start>>
    /\ UNCHANGED <<dvars, avars, ivars, pvars, svars, lvars, bvars, ovars, kvars, qvars, mvars>>

\* _scan_cidr_loop after the joins: the poller is started unless the flag
\* is set or a poller thread is recorded
CidrFinish(g) ==
    /\ e_thr[<<"cidr", g>>].pc = "join"
    /\ e_thr[<<"worker", g>>].pc \in {"none", "exited"}
    /\ IF ~e_stop /\ e_handles.port8000 = <<>>
       THEN /\ e_handles' = [e_handles EXCEPT !.port8000 = <<"poller", g>>]
            /\ e_thr' = [e_thr EXCEPT ![<<"cidr", g>>].pc = "exited",
                                      ![<<"poller", g>>].pc = "loop"]
       ELSE /\ e_thr' = [e_thr EXCEPT ![<<"cidr", g>>].pc = "exited",
                                      ![<<"cidr", g>>].obs = @ \/ e_stop]
            /\ UNCHANGED e_handles
    /\ UNCHANGED <<e_stop, e_zeroconf, e_browsers, e_queue, e_call, e_gen, e_calls,
                   e_clears, e_seen, e_alias, e_registry, e_emits, e_owed, e_first,
                   e_start>>
    /\ UNCHANGED <<dvars, avars, ivars, pvars, svars, lvars, bvars, ovars, kvars, qvars, mvars>>

\* worker(): "while not self._stop" and q.get_nowait(); the address taken
\* answers the probe
WorkerTake(g) ==
    /\ e_thr[<<"worker", g>>].pc = "test"
    /\ IF e_stop \/ e_queue[g] = <<>>
       THEN /\ e_thr' = [e_thr EXCEPT ![<<"worker", g>>] =
                            [NoThread EXCEPT !.pc = "exited", !.obs = e_stop]]
            /\ UNCHANGED e_queue
       ELSE /\ e_queue' = [e_queue EXCEPT ![g] = Tail(@)]
            /\ e_thr' = [e_thr EXCEPT ![<<"worker", g>>] =
                            [NoThread EXCEPT !.pc = "seen", !.ip = Head(e_queue[g]),
                                             !.epoch = e_clears]]
    /\ UNCHANGED <<e_stop, e_zeroconf, e_browsers, e_handles, e_call, e_gen, e_calls,
                   e_clears, e_seen, e_alias, e_registry, e_emits, e_owed, e_first,
                   e_start>>
    /\ UNCHANGED <<dvars, avars, ivars, pvars, svars, lvars, bvars, ovars, kvars, qvars, mvars>>

\* _emit_device: "with self._seen_ips_lock: self._seen_ips.add(ip)"
WorkerSeen(g) ==
    /\ e_thr[<<"worker", g>>].pc = "seen"
    /\ e_seen' = e_seen \cup {[ip |-> e_thr[<<"worker", g>>].ip,
                               epoch |-> e_thr[<<"worker", g>>].epoch]}
    /\ e_thr' = [e_thr EXCEPT ![<<"worker", g>>].pc = "alias"]
    /\ UNCHANGED <<e_stop, e_zeroconf, e_browsers, e_handles, e_queue, e_call, e_gen,
                   e_calls, e_clears, e_alias, e_registry, e_emits, e_owed, e_first,
                   e_start>>
    /\ UNCHANGED <<dvars, avars, ivars, pvars, svars, lvars, bvars, ovars, kvars, qvars, mvars>>

\* _emit_device: "base_alias = self.alias_mgr.alias_for(device_key)", on the
\* alias manager the object holds at that moment
WorkerAlias(g) ==
    /\ e_thr[<<"worker", g>>].pc = "alias"
    /\ LET w == e_thr[<<"worker", g>>]
           used == {e_alias[k].n : k \in DOMAIN e_alias}
           n == IF w.ip \in DOMAIN e_alias THEN e_alias[w.ip].n
                ELSE CHOOSE i \in 1..(Cardinality(used) + 1) :
                         i \notin used /\ \A j \in 1..(i - 1) : j \in used
       IN /\ e_alias' = IF w.ip \in DOMAIN e_alias THEN e_alias
                        ELSE (w.ip :> [n |-> n, epoch |-> w.epoch]) @@ e_alias
          /\ e_thr' = [e_thr EXCEPT ![<<"worker", g>>].pc = "registry",
                                    ![<<"worker", g>>].base = n]
          /\ e_first' = IF e_first = 0 /\ w.epoch = e_clears THEN n ELSE e_first
    /\ UNCHANGED <<e_stop, e_zeroconf, e_browsers, e_handles, e_queue, e_call, e_gen,
                   e_calls, e_clears, e_seen, e_registry, e_emits, e_owed, e_start>>
    /\ UNCHANGED <<dvars, avars, ivars, pvars, svars, lvars, bvars, ovars, kvars, qvars, mvars>>

\* _emit_device from "with self._registry_lock" on: the record is written
\* under the lock; a new device is reported after the lock is released
WorkerRegister(g) ==
    /\ e_thr[<<"worker", g>>].pc = "registry"
    /\ LET w == e_thr[<<"worker", g>>] IN
       /\ e_registry' = IF w.ip \in DOMAIN e_registry THEN e_registry
                        ELSE (w.ip :> [n |-> w.base, epoch |-> w.epoch]) @@ e_registry
       /\ e_emits' = IF w.ip \in DOMAIN e_registry THEN e_emits
                     ELSE e_emits \cup {[type |-> "device_found", locked |-> FALSE]}
    /\ e_thr' = [e_thr EXCEPT ![<<"worker", g>>] = [NoThread EXCEPT !.pc = "test"]]
    /\ UNCHANGED <<e_stop, e_zeroconf, e_browsers, e_handles, e_queue, e_call, e_gen,
                   e_calls, e_clears, e_seen, e_alias, e_owed, e_first, e_start>>
    /\ UNCHANGED <<dvars, avars, ivars, pvars, svars, lvars, bvars, ovars, kvars, qvars, mvars>>

\* one pass of _sweeper_loop, or its end when the flag is set: under
\* _registry_lock the stale records (any, time is not modelled here) are
\* reported and then removed
LifeSweeperPass(g, del) ==
    /\ e_thr[<<"sweeper", g>>].pc = "loop"
    /\ IF e_stop
       THEN /\ e_thr' = [e_thr EXCEPT ![<<"sweeper", g>>].pc = "exited",
                                      ![<<"sweeper", g>>].obs = TRUE]
            /\ UNCHANGED <<e_registry, e_emits>>
       ELSE /\ del \subseteq DOMAIN e_registry
            /\ e_emits' = IF del = {} THEN e_emits
                          ELSE e_emits \cup {[type |-> "device_gone", locked |-> TRUE]}
            /\ e_registry' = [k \in (DOMAIN e_registry) \ del |-> e_registry[k]]
            /\ UNCHANGED e_thr
    /\ UNCHANGED <<e_stop, e_zeroconf, e_browsers, e_handles, e_queue, e_call, e_gen,
                   e_calls, e_clears, e_seen, e_alias, e_owed, e_first, e_start>>
    /\ UNCHANGED <<dvars, avars, ivars, pvars, svars, lvars, bvars, ovars, kvars, qvars, mvars>>

\* one cycle of _port8000_poll, or its end when the flag is set
LifePollCycle(g) ==
    /\ e_thr[<<"poller", g>>].pc = "loop"
    /\ IF e_stop
       THEN /\ e_thr' = [e_thr EXCEPT ![<<"poller", g>>].pc = "exited",
                                      ![<<"poller", g>>].obs = TRUE]
            /\ UNCHANGED e_emits
       ELSE /\ e_emits' = IF e_seen = {} THEN e_emits
                          ELSE e_emits \cup {[type |-> "webapp_status", locked |-> FALSE]}
            /\ UNCHANGED e_thr
    /\ UNCHANGED <<e_stop, e_zeroconf, e_browsers, e_handles, e_queue, e_call, e_gen,
                   e_calls, e_clears, e_seen, e_alias, e_registry, e_owed, e_first,
                   e_start>>
    /\ UNCHANGED <<dvars, avars, ivars, pvars, svars, lvars, bvars, ovars, kvars, qvars, mvars>>

(***************************************************************************)
(* JSBridge (ui/js_bridge.py): call, call_raw, mark_ready, stop and the    *)
(* consumer loop.  A queued call is its number in the order of the puts;   *)
(* the sentinel None is number 0.                                          *)
(***************************************************************************)
JsSentinel == [id |-> 0, fn |-> "None"]

JsIdleThread == [pc |-> "none", item |-> JsSentinel]

\* JSBridge.__init__
BIdle ==
    /\ b_window = FALSE
    /\ b_ready = FALSE
    /\ b_stop = FALSE
    /\ b_queue = <<>>
    /\ b_thr = [c \in 1..MaxJsReady |-> JsIdleThread]
    /\ b_started = 0
    /\ b_log = <<>>
    /\ b_enq = 0
    /\ b_stops = 0
    /\ b_call = "idle"

\* set_window
JsSetWindow ==
    /\ ~b_window
    /\ b_window' = TRUE
    /\ UNCHANGED <<b_ready, b_stop, b_queue, b_thr, b_started, b_log, b_enq, b_stops,
                   b_call>>
    /\ UNCHANGED <<dvars, avars, ivars, pvars, svars, lvars, evars, ovars, kvars, qvars, mvars>>

\* call (fn is the function name) and call_raw (fn = "__raw__"), from any
\* thread: one put
JsCall(fn) ==
    /\ b_enq < MaxJsItems
    /\ b_enq' = b_enq + 1
    /\ b_queue' = Append(b_queue, [id |-> b_enq + 1, fn |-> fn])
    /\ UNCHANGED <<b_window, b_ready, b_stop, b_thr, b_started, b_log, b_stops, b_call>>
    /\ UNCHANGED <<dvars, avars, ivars, pvars, svars, lvars, evars, ovars, kvars, qvars, mvars>>

\* mark_ready: both events are written and a new consumer thread is started,
\* whatever threads exist
JsMarkReady ==
    /\ b_call = "idle"
    /\ b_started < MaxJsReady
    /\ b_ready' = TRUE
    /\ b_stop' = FALSE
    /\ b_started' = b_started + 1
    /\ b_thr' = [b_thr EXCEPT ![b_started + 1].pc = "wait"]
    /\ UNCHANGED <<b_window, b_queue, b_log, b_enq, b_stops, b_call>>
    /\ UNCHANGED <<dvars, avars, ivars, pvars, svars, lvars, evars, ovars, kvars, qvars, mvars>>

\* stop, first statement: the stop event is set
JsStopSet ==
    /\ b_call = "idle"
    /\ b_stops < MaxJsStops
    /\ b_stops' = b_stops + 1
    /\ b_stop' = TRUE
    /\ b_call' = "put"
    /\ UNCHANGED <<b_window, b_ready, b_queue, b_thr, b_started, b_log, b_enq>>
    /\ UNCHANGED <<dvars, avars, ivars, pvars, svars, lvars, evars, ovars, kvars, qvars, mvars>>

\* stop, the rest: the sentinel is put and the last consumer is joined for
\* at most 2 s
JsStopPut ==
    /\ b_call = "put"
    /\ b_queue' = Append(b_queue, JsSentinel)
    /\ b_call' = "idle"
    /\ UNCHANGED <<b_window, b_ready, b_stop, b_thr, b_started, b_log, b_enq, b_stops>>
    /\ UNCHANGED <<dvars, avars, ivars, pvars, svars, lvars, evars, ovars, kvars, qvars, mvars>>

\* _consume_loop: "self._ready.wait(timeout=30)"; the event was set before
\* the thread was started and is never cleared
JsConsumeWait(c) ==
    /\ b_thr[c].pc = "wait"
    /\ b_thr' = [b_thr EXCEPT ![c].pc = IF b_ready THEN "test" ELSE "exited"]
    /\ UNCHANGED <<b_window, b_ready, b_stop, b_queue, b_started, b_log, b_enq, b_stops,
                   b_call>>
    /\ UNCHANGED <<dvars, avars, ivars, pvars, svars, lvars, evars, ovars, kvars, qvars, mvars>>

\* _consume_loop: "while not self._stop.is_set()"
JsConsumeTest(c) ==
    /\ b_thr[c].pc = "test"
    /\ b_thr' = [b_thr EXCEPT ![c].pc = IF b_stop THEN "exited" ELSE "get"]
    /\ UNCHANGED <<b_window, b_ready, b_stop, b_queue, b_started, b_log, b_enq, b_stops,
                   b_call>>
    /\ UNCHANGED <<dvars, avars, ivars, pvars, svars, lvars, evars, ovars, kvars, qvars, mvars>>

\* _consume_loop: "item = self._queue.get(timeout=0.5)" returns the head of
\* the queue; the sentinel ends the loop
JsConsumeGet(c) ==
    /\ b_thr[c].pc = "get"
    /\ b_queue # <<>>
    /\ b_queue' = Tail(b_queue)
    /\ b_thr' = [b_thr EXCEPT ![c] = IF Head(b_queue) = JsSentinel
                                     THEN [JsIdleThread EXCEPT !.pc = "exited"]
                                     ELSE [pc |-> "item", item |-> Head(b_queue)]]
    /\ UNCHANGED <<b_window, b_ready, b_stop, b_started, b_log, b_enq, b_stops, b_call>>
    /\ UNCHANGED <<dvars, avars, ivars, pvars, svars, lvars, evars, ovars, kvars, qvars, mvars>>

\* _consume_loop: the get times out on the empty queue (queue.Empty) and the
\* loop continues
JsConsumeEmpty(c) ==
    /\ b_thr[c].pc = "get"
    /\ b_queue = <<>>
    /\ b_thr' = [b_thr EXCEPT ![c].pc = "test"]
    /\ UNCHANGED <<b_window, b_ready, b_stop, b_queue, b_started, b_log, b_enq, b_stops,
                   b_call>>
    /\ UNCHANGED <<dvars, avars, ivars, pvars, svars, lvars, evars, ovars, kvars, qvars, mvars>>

\* _execute up to the evaluate_js call: without a window the item is
\* dropped
JsExecute(c) ==
    /\ b_thr[c].pc = "item"
    /\ IF b_window
       THEN /\ b_log' = Append(b_log, b_thr[c].item.id)
            /\ b_thr' = [b_thr EXCEPT ![c].pc = "js"]
       ELSE /\ b_thr' = [b_thr EXCEPT ![c] = [JsIdleThread EXCEPT !.pc = "test"]]
            /\ UNCHANGED b_log
    /\ UNCHANGED <<b_window, b_ready, b_stop, b_queue, b_started, b_enq, b_stops, b_call>>
    /\ UNCHANGED <<dvars, avars, ivars, pvars, svars, lvars, evars, ovars, kvars, qvars, mvars>>

\* evaluate_js returns or raises: an exception is printed, in _execute for a
\* named call and in _consume_loop for raw code, and the loop continues
JsEvaluateEnd(c) ==
    /\ b_thr[c].pc = "js"
    /\ b_thr' = [b_thr EXCEPT ![c] = [JsIdleThread EXCEPT !.pc = "test"]]
    /\ UNCHANGED <<b_window, b_ready, b_stop, b_queue, b_started, b_log, b_enq, b_stops,
                   b_call>>
    /\ UNCHANGED <<dvars, avars, ivars, pvars, svars, lvars, evars, ovars, kvars, qvars, mvars>>

(***************************************************************************)
(* SSHWorker operations and Discovery._probe_tcp: results and resources.   *)
(* A resource is released when the code closes it; the transport of the    *)
(* client the worker holds is the one resource kept between operations.    *)
(***************************************************************************)
NoResources == [socket |-> 0, transport |-> 0, sftp |-> 0, channel |-> 0]

\* SSHWorker._ensure_connected
EnsureConnectedMutPass(client) == "ok"

EnsureConnected(client) == IF client = 0 THEN "RuntimeError" ELSE "ok"

\* Discovery._probe_tcp: the socket is closed after a successful connect;
\* the handler of a failed connect returns False
ProbeTcp(connect_ok) ==
    [name |-> "_probe_tcp", ret |-> IF connect_ok THEN "True" ELSE "False",
     remote |-> 1, events |-> <<>>,
     open |-> [NoResources EXCEPT !.socket = IF connect_ok THEN 0 ELSE 1]]

\* SSHWorker.exec_simple: nothing is caught; the channel of exec_command is
\* not closed by the method
ExecSimple(client, fault) ==
    IF EnsureConnected(client) # "ok"
    THEN [name |-> "exec_simple", ret |-> "raise", exc |-> EnsureConnected(client),
          remote |-> 0, events |-> <<>>, open |-> NoResources]
    ELSE IF fault = "exec_command"
    THEN [name |-> "exec_simple", ret |-> "raise", exc |-> "SSHException",
          remote |-> 0, events |-> <<>>, open |-> NoResources]
    ELSE IF fault \in {"write", "read"}
    THEN [name |-> "exec_simple", ret |-> "raise", exc |-> "socket.timeout",
          remote |-> 1, events |-> <<>>, open |-> [NoResources EXCEPT !.channel = 1]]
    ELSE [name |-> "exec_simple", ret |-> "tuple", exc |-> "",
          remote |-> 1, events |-> <<>>, open |-> [NoResources EXCEPT !.channel = 1]]

\* SSHWorker.upload_file: the SFTP channel is closed in the finally block
UploadFile(client, fault) ==
    IF EnsureConnected(client) # "ok"
    THEN [name |-> "upload_file", ret |-> "raise", exc |-> EnsureConnected(client),
          remote |-> 0, events |-> <<>>, open |-> NoResources]
    ELSE IF fault = "open_sftp"
    THEN [name |-> "upload_file", ret |-> "raise", exc |-> "SSHException",
          remote |-> 0, events |-> <<>>, open |-> NoResources]
    ELSE IF fault = "put"
    THEN [name |-> "upload_file", ret |-> "raise", exc |-> "OSError",
          remote |-> 1, events |-> <<LogEvent("[SFTP] Upload", "info")>>,
          open |-> NoResources]
    ELSE [name |-> "upload_file", ret |-> "None", exc |-> "",
          remote |-> 1,
          events |-> <<LogEvent("[SFTP] Upload", "info"),
                       LogEvent("[SFTP] Upload complete.", "success")>>,
          open |-> NoResources]

\* SSHWorker.run_install on a worker without a client: the error of
\* _ensure_connected is caught by the handler of the call
RunInstallNoClient(client) ==
    IF EnsureConnected(client) # "ok"
    THEN [name |-> "run_install", ret |-> "False", exc |-> "",
          remote |-> 0,
          events |-> <<LogEvent(Msg.error \o Msg.not_connected, "error")>>,
          open |-> NoResources]
    ELSE [name |-> "run_install", ret |-> "started", exc |-> "",
          remote |-> 1, events |-> <<>>, open |-> [NoResources EXCEPT !.channel = 1]]

\* SSHWorker.stream_logs to its end: "channel.close()" is the last statement
\* of the try block, so a fault in the loop skips it
StreamLogs(client, fault) ==
    IF EnsureConnected(client) # "ok"
    THEN [name |-> "stream_logs", ret |-> "None", exc |-> "",
          remote |-> 0,
          events |-> <<LogEvent(<<SshMsg.logs_error, "RuntimeError">>, "error")>>,
          open |-> NoResources]
    ELSE IF fault = "exec_command"
    THEN [name |-> "stream_logs", ret |-> "None", exc |-> "",
          remote |-> 0,
          events |-> <<LogEvent(<<SshMsg.logs_starting>>, "info"),
                       LogEvent(<<SshMsg.logs_error, "SSHException">>, "error")>>,
          open |-> NoResources]
    ELSE IF fault = "loop"
    THEN [name |-> "stream_logs", ret |-> "None", exc |-> "",
          remote |-> 1,
          events |-> <<LogEvent(<<SshMsg.logs_starting>>, "info"),
                       LogEvent(<<SshMsg.logs_error, "socket.error">>, "error")>>,
          open |-> [NoResources EXCEPT !.channel = 1]]
    ELSE [name |-> "stream_logs", ret |-> "None", exc |-> "",
          remote |-> 1, events |-> <<LogEvent(<<SshMsg.logs_starting>>, "info")>>,
          open |-> NoResources]

\* the state before any operation
OIdle ==
    /\ o_config = [key_path |-> "", password |-> ""]
    /\ o_files = [p \in {KeyStore.explicit} \cup {KeyStore.names[n] : n \in 1..3} |-> "absent"]
    /\ o_client = 0
    /\ o_connected = FALSE
    /\ o_open = NoResources
    /\ o_op = [name |-> "none"]
    /\ o_calls = 0

\* SSHWorker.__init__ for the configurations with and without a key path
\* and a password, and every content of the key file named
OInit ==
    /\ o_config \in [key_path : {"", KeyStore.explicit}, password : {"", "secret"}]
    /\ \E kind \in {"absent", "valid", "invalid", "unreadable"} :
          o_files = [p \in {KeyStore.explicit} \cup {KeyStore.names[n] : n \in 1..3} |->
                        IF p = KeyStore.explicit THEN kind ELSE "absent"]
    /\ o_client = 0
    /\ o_connected = FALSE
    /\ o_open = NoResources
    /\ o_op = [name |-> "none"]
    /\ o_calls = 0

\* SSHWorker.connect seen with its resources: each client.connect that
\* reaches the server opens a transport; the method closes none, and the
\* client it stores on success holds the last one
OpsConnect(env) ==
    /\ o_calls < MaxOps
    /\ o_client = 0 /\ ~o_connected
    /\ LET r == ConnectResult(o_config, o_files, env)
           opened == IF env.reachable THEN Len(r.tried) ELSE 0
       IN  /\ o_op' = [name |-> "connect", ret |-> r.ret, exc |-> "", remote |-> opened,
                       events |-> r.events,
                       open |-> [NoResources EXCEPT !.transport = opened],
                       had_client |-> FALSE, was_connected |-> o_connected,
                       was_open |-> o_open]
           /\ o_client' = IF r.connected = "yes" THEN 1 ELSE o_client
           /\ o_connected' = CASE r.connected = "yes" -> TRUE
                               [] r.connected = "no" -> FALSE
                               [] OTHER -> o_connected
           /\ o_open' = [o_open EXCEPT !.transport = @ + opened]
    /\ o_calls' = o_calls + 1
    /\ UNCHANGED <<o_config, o_files>>
    /\ UNCHANGED <<dvars, avars, ivars, pvars, svars, lvars, evars, bvars, kvars, qvars, mvars>>

\* SSHWorker.close seen with its resources: closing the client closes the
\* transport it holds
OpsClose ==
    /\ o_calls < MaxOps
    /\ o_op' = [name |-> "close", ret |-> "None", exc |-> "", remote |-> 0,
                events |-> <<LogEvent(<<SshMsg.disconnected>>, "warning")>>,
                open |-> NoResources, had_client |-> o_client # 0,
                was_connected |-> o_connected, was_open |-> o_open]
    /\ o_client' = 0
    /\ o_connected' = FALSE
    /\ o_open' = [o_open EXCEPT !.transport = IF o_client # 0 THEN @ - 1 ELSE @]
    /\ o_calls' = o_calls + 1
    /\ UNCHANGED <<o_config, o_files>>
    /\ UNCHANGED <<dvars, avars, ivars, pvars, svars, lvars, evars, bvars, kvars, qvars, mvars>>

\* one call of _probe_tcp, exec_simple, upload_file, run_install (on a
\* worker without a client) or stream_logs, with the fault that happens
OpsCall(name, fault) ==
    /\ o_calls < MaxOps
    /\ name = "run_install" => o_client = 0
    /\ LET r == CASE name = "_probe_tcp" -> ProbeTcp(fault = "none")
                  [] name = "exec_simple" -> ExecSimple(o_client, fault)
                  [] name = "upload_file" -> UploadFile(o_client, fault)
                  [] name = "run_install" -> RunInstallNoClient(o_client)
                  [] OTHER -> StreamLogs(o_client, fault)
       IN  /\ o_op' = [name |-> r.name, ret |-> r.ret,
                       exc |-> IF name = "_probe_tcp" THEN "" ELSE r.exc,
                       remote |-> r.remote, events |-> r.events, open |-> r.open,
                       had_client |-> o_client # 0, was_connected |-> o_connected,
                       was_open |-> o_open]
           /\ o_open' = [k \in DOMAIN o_open |-> o_open[k] + r.open[k]]
    /\ o_calls' = o_calls + 1
    /\ UNCHANGED <<o_config, o_files, o_client, o_connected>>
    /\ UNCHANGED <<dvars, avars, ivars, pvars, svars, lvars, evars, bvars, kvars, qvars, mvars>>

(***************************************************************************)
(* Discovery._scan_cidr_loop (discovery/manager.py): the target networks,  *)
(* the queue of a network and its pool of workers.  An address is a        *)
(* number; SweepPool stands for the 24 workers of a network.               *)
(***************************************************************************)
\* list(network.hosts()) of the networks the sweep can meet: the two fixed
\* ones and a local network that is neither
SweepHosts ==
    [usb |-> <<1, 2, 3>>, bluetooth |-> <<4>>, lan |-> <<5>>]

\* "networks": the network of the default interface when there is one
\* (_get_gateway_cidr), then 172.20.1.0/24 and 172.20.2.0/24
SweepNetworks(gateway) ==
    (IF gateway = "none" THEN <<>> ELSE <<SweepHosts[gateway]>>)
        \o <<SweepHosts.usb, SweepHosts.bluetooth>>

SweepWorkerIds == (1..3) \X (1..SweepPool)

\* before the sweep thread runs
KIdle ==
    /\ k_gateway = "none"
    /\ k_nets = <<>>
    /\ k_idx = 0
    /\ k_queue = <<>>
    /\ k_thr = [t \in SweepWorkerIds |-> [pc |-> "none", ip |-> 0]]
    /\ k_probes = [a \in 1..5 |-> 0]
    /\ k_pc = "begin"
    /\ k_stop = FALSE
    /\ k_poller = FALSE

\* the machine has no default interface, or one in a local network, or one
\* in one of the two fixed networks
KInit ==
    /\ k_gateway \in {"none", "lan", "usb", "bluetooth"}
    /\ k_nets = <<>>
    /\ k_idx = 0
    /\ k_queue = <<>>
    /\ k_thr = [t \in SweepWorkerIds |-> [pc |-> "none", ip |-> 0]]
    /\ k_probes = [a \in 1..5 |-> 0]
    /\ k_pc = "begin"
    /\ k_stop = FALSE
    /\ k_poller = FALSE

\* stop(): the flag is set
SweepStop ==
    /\ ~k_stop
    /\ k_stop' = TRUE
    /\ UNCHANGED <<k_gateway, k_nets, k_idx, k_queue, k_thr, k_probes, k_pc, k_poller>>
    /\ UNCHANGED <<dvars, avars, ivars, pvars, svars, lvars, evars, bvars, ovars, qvars, mvars>>

\* _scan_cidr_loop up to its "for network in networks"
SweepBegin ==
    /\ k_pc = "begin"
    /\ k_nets' = SweepNetworks(k_gateway)
    /\ k_pc' = "loop"
    /\ UNCHANGED <<k_gateway, k_idx, k_queue, k_thr, k_probes, k_stop, k_poller>>
    /\ UNCHANGED <<dvars, avars, ivars, pvars, svars, lvars, evars, bvars, ovars, qvars, mvars>>

\* one turn of "for network in networks" up to the joins: the loop ends
\* after the last network or when the flag is set; otherwise the hosts are
\* queued and the workers of the network are started
SweepSpawn ==
    /\ k_pc = "loop"
    /\ IF k_idx = Len(k_nets) \/ k_stop
       THEN /\ k_pc' = "after"
            /\ UNCHANGED <<k_idx, k_queue, k_thr>>
       ELSE /\ k_idx' = k_idx + 1
            /\ k_queue' = k_nets[k_idx + 1]
            /\ k_thr' = [t \in SweepWorkerIds |->
                            IF t[1] = k_idx + 1 THEN [pc |-> "test", ip |-> 0]
                            ELSE k_thr[t]]
            /\ k_pc' = "join"
    /\ UNCHANGED <<k_gateway, k_nets, k_probes, k_stop, k_poller>>
    /\ UNCHANGED <<dvars, avars, ivars, pvars, svars, lvars, evars, bvars, ovars, qvars, mvars>>

\* worker(): "while not self._stop" and "ip = q.get_nowait()"
SweepWorkerTake(t) ==
    /\ k_thr[t].pc = "test"
    /\ IF k_stop \/ k_queue = <<>>
       THEN /\ k_thr' = [k_thr EXCEPT ![t] = [pc |-> "exited", ip |-> 0]]
            /\ UNCHANGED k_queue
       ELSE /\ k_thr' = [k_thr EXCEPT ![t] = [pc |-> "probe", ip |-> Head(k_queue)]]
            /\ k_queue' = Tail(k_queue)
    /\ UNCHANGED <<k_gateway, k_nets, k_idx, k_probes, k_pc, k_stop, k_poller>>
    /\ UNCHANGED <<dvars, avars, ivars, pvars, svars, lvars, evars, bvars, ovars, qvars, mvars>>

\* worker(): the probe of port 22 and, for an address that answers, the
\* reverse lookup and _emit_device; an exception of _emit_device ends the
\* worker thread
SweepWorkerProbe(t, emit_raises) ==
    /\ k_thr[t].pc = "probe"
    /\ k_probes' = [k_probes EXCEPT ![k_thr[t].ip] = @ + 1]
    /\ k_thr' = [k_thr EXCEPT ![t] = [pc |-> IF emit_raises THEN "dead" ELSE "test",
                                       ip |-> 0]]
    /\ UNCHANGED <<k_gateway, k_nets, k_idx, k_queue, k_pc, k_stop, k_poller>>
    /\ UNCHANGED <<dvars, avars, ivars, pvars, svars, lvars, evars, bvars, ovars, qvars, mvars>>

\* "for t in threads: t.join()"
SweepJoin ==
    /\ k_pc = "join"
    /\ \A t \in SweepWorkerIds : t[1] = k_idx => k_thr[t].pc \in {"exited", "dead"}
    /\ k_pc' = "loop"
    /\ UNCHANGED <<k_gateway, k_nets, k_idx, k_queue, k_thr, k_probes, k_stop, k_poller>>
    /\ UNCHANGED <<dvars, avars, ivars, pvars, svars, lvars, evars, bvars, ovars, qvars, mvars>>

\* after the loop: the poller is started unless the flag is set (no poller
\* thread is recorded in the first sweep of an object)
SweepAfter ==
    /\ k_pc = "after"
    /\ k_poller' = ~k_stop
    /\ k_pc' = "done"
    /\ UNCHANGED <<k_gateway, k_nets, k_idx, k_queue, k_thr, k_probes, k_stop>>
    /\ UNCHANGED <<dvars, avars, ivars, pvars, svars, lvars, evars, bvars, ovars, qvars, mvars>>

(***************************************************************************)
(* Discovery._port8000_poll                                                *)
(***************************************************************************)
\* the addresses the poller can meet
PollIps == 1..2

\* no poller running
QIdle ==
    /\ q_seen = {}
    /\ q_up = [ip \in PollIps |-> FALSE]
    /\ q_web_status_prev = {}
    /\ q_futures = {}
    /\ q_events = <<>>
    /\ q_pc = "exited"
    /\ q_stop = FALSE
    /\ q_cycles = 0

\* the object after __init__ and start(), at the first test of the flag by
\* the poller; the webapp of each address is up or down
QInit ==
    /\ q_seen = {}
    /\ q_up \in [PollIps -> BOOLEAN]
    /\ q_web_status_prev = {}
    /\ q_futures = {}
    /\ q_events = <<>>
    /\ q_pc = "test"
    /\ q_stop = FALSE
    /\ q_cycles = 0

\* stop(): the flag
PollStop ==
    /\ ~q_stop
    /\ q_stop' = TRUE
    /\ UNCHANGED <<q_seen, q_up, q_web_status_prev, q_futures, q_events, q_pc, q_cycles>>
    /\ UNCHANGED <<dvars, avars, ivars, pvars, svars, lvars, evars, bvars, ovars, kvars, mvars>>

\* the webapp of an address starts or stops listening on port 8000
PollWebappFlip(ip) ==
    /\ q_up' = [q_up EXCEPT ![ip] = ~q_up[ip]]
    /\ UNCHANGED <<q_seen, q_web_status_prev, q_futures, q_events, q_pc, q_stop, q_cycles>>
    /\ UNCHANGED <<dvars, avars, ivars, pvars, svars, lvars, evars, bvars, ovars, kvars, mvars>>

\* _emit_device on another thread: "self._seen_ips.add(ip)"
PollSeen(ip) ==
    /\ ip \notin q_seen
    /\ q_seen' = q_seen \cup {ip}
    /\ UNCHANGED <<q_up, q_web_status_prev, q_futures, q_events, q_pc, q_stop, q_cycles>>
    /\ UNCHANGED <<dvars, avars, ivars, pvars, svars, lvars, evars, bvars, ovars, kvars, mvars>>

\* "while not self._stop", the snapshot of _seen_ips and the submission of
\* one probe per address of the snapshot
PollSnapshot ==
    /\ q_pc = "test"
    /\ IF q_stop
       THEN /\ q_pc' = "exited"
            /\ UNCHANGED <<q_futures, q_cycles>>
       ELSE /\ q_cycles < MaxPollCycles
            /\ q_cycles' = q_cycles + 1
            /\ q_futures' = q_seen
            /\ q_pc' = IF q_seen # {} THEN "probe" ELSE "sleep"
    /\ UNCHANGED <<q_seen, q_up, q_web_status_prev, q_events, q_stop>>
    /\ UNCHANGED <<dvars, avars, ivars, pvars, svars, lvars, evars, bvars, ovars, kvars, mvars>>

\* the callback of one completed future: "self.api_callback('webapp_status',
\* ip, up)" with the result of the probe (_web_status_prev is not consulted)
WebappStatus(events, ip, up) == Append(events, [ip |-> ip, up |-> up])

\* one turn of "for future in as_completed(futures)": the break on the flag,
\* else the result of _probe_tcp(ip, 8000) and the callback
PollCompleted(ip) ==
    /\ q_pc = "probe"
    /\ ip \in q_futures
    /\ IF q_stop
       THEN /\ q_futures' = {}
            /\ q_pc' = "sleep"
            /\ UNCHANGED q_events
       ELSE /\ q_events' = WebappStatus(q_events, ip, ProbeTcp(q_up[ip]).ret = "True")
            /\ q_futures' = q_futures \ {ip}
            /\ q_pc' = IF q_futures = {ip} THEN "sleep" ELSE "probe"
    /\ UNCHANGED <<q_seen, q_up, q_web_status_prev, q_stop, q_cycles>>
    /\ UNCHANGED <<dvars, avars, ivars, pvars, svars, lvars, evars, bvars, ovars, kvars, mvars>>

\* the sleep of up to 30 seconds, cut short by the flag
PollSleep ==
    /\ q_pc = "sleep"
    /\ q_pc' = "test"
    /\ UNCHANGED <<q_seen, q_up, q_web_status_prev, q_futures, q_events, q_stop, q_cycles>>
    /\ UNCHANGED <<dvars, avars, ivars, pvars, svars, lvars, evars, bvars, ovars, kvars, mvars>>

(***************************************************************************)
(* API.stream_logs, API.stop_log_stream and the stream thread (app.py)     *)
(***************************************************************************)
StreamThreadIds == 1..MaxStreams

\* a Thread object that was never created
NoStreamThread == [pc |-> "none", chan |-> FALSE, cancelled |-> FALSE]

\* before any call: "_log_stream_thread = None", "_log_stream_stop = Event()"
MIdle ==
    /\ m_conn = "closed"
    /\ m_stop = FALSE
    /\ m_thread = 0
    /\ m_thr = [t \in StreamThreadIds |-> NoStreamThread]
    /\ m_lines = 0
    /\ m_rets = <<>>

\* Thread.is_alive(): started and its target has not returned
StreamAlive(thr, t) == thr[t].pc \in {"begin", "loop"}

\* "self._log_stream_thread and self._log_stream_thread.is_alive()"
StreamThreadAlive(handle, thr) == handle # 0 /\ StreamAlive(thr, handle)

\* the two early returns of stream_logs
StreamLogsResultMutNoGuard(conn, alive) ==
    IF conn # "connected" THEN "Not connected to SSH" ELSE "success"

StreamLogsResult(conn, alive) ==
    IF conn # "connected" THEN "Not connected to SSH"
    ELSE IF alive THEN "Log streaming already active"
    ELSE "success"

\* ssh_worker.close() closes the client and with it the channels of the
\* stream threads
CloseChannels(thr) == [t \in StreamThreadIds |-> [thr[t] EXCEPT !.chan = FALSE]]

\* _log_stream_stop.set() as the running stream threads see it
SetStop(thr) ==
    [t \in StreamThreadIds |->
        IF StreamAlive(thr, t) THEN [thr[t] EXCEPT !.cancelled = TRUE] ELSE thr[t]]

\* the Thread object stream_logs creates
NewStreamThread(thr) == CHOOSE t \in StreamThreadIds :
    /\ thr[t].pc = "none"
    /\ \A u \in StreamThreadIds : u < t => thr[u].pc # "none"

\* connect_ssh: closes the current worker and starts connect_thread
AppConnectSsh ==
    /\ m_conn' = "connecting"
    /\ m_thr' = CloseChannels(m_thr)
    /\ UNCHANGED <<m_stop, m_thread, m_lines, m_rets>>
    /\ UNCHANGED <<dvars, avars, ivars, pvars, svars, lvars, evars, bvars, ovars, kvars, qvars>>

\* connect_thread: a new worker, connected or not
AppConnectThread(ok) ==
    /\ m_conn = "connecting"
    /\ m_conn' = IF ok THEN "connected" ELSE "closed"
    /\ UNCHANGED <<m_stop, m_thread, m_thr, m_lines, m_rets>>
    /\ UNCHANGED <<dvars, avars, ivars, pvars, svars, lvars, evars, bvars, ovars, kvars, qvars>>

\* disconnect_ssh: sets the stop event and closes the worker; a connect
\* thread that has not created its worker yet goes on
AppDisconnectSsh(late) ==
    /\ m_stop' = TRUE
    /\ m_conn' = IF m_conn = "connecting" /\ late THEN "connecting" ELSE "closed"
    /\ m_thr' = CloseChannels(SetStop(m_thr))
    /\ UNCHANGED <<m_thread, m_lines, m_rets>>
    /\ UNCHANGED <<dvars, avars, ivars, pvars, svars, lvars, evars, bvars, ovars, kvars, qvars>>

\* stream_logs: the two early returns, else clears the stop event, creates
\* and starts the stream thread
AppStreamLogs ==
    /\ Len(m_rets) < MaxStreamCalls
    /\ \E t \in StreamThreadIds : m_thr[t].pc = "none"
    /\ LET ret == StreamLogsResult(m_conn, StreamThreadAlive(m_thread, m_thr))
           t == NewStreamThread(m_thr)
       IN /\ m_rets' = Append(m_rets, ret)
          /\ IF ret = "success"
             THEN /\ m_stop' = FALSE
                  /\ m_thread' = t
                  /\ m_thr' = [m_thr EXCEPT ![t] = [pc |-> "begin", chan |-> FALSE,
                                                    cancelled |-> FALSE]]
             ELSE UNCHANGED <<m_stop, m_thread, m_thr>>
    /\ UNCHANGED <<m_conn, m_lines>>
    /\ UNCHANGED <<dvars, avars, ivars, pvars, svars, lvars, evars, bvars, ovars, kvars, qvars>>

\* stop_log_stream
AppStopLogStream ==
    /\ m_stop' = TRUE
    /\ m_thr' = SetStop(m_thr)
    /\ UNCHANGED <<m_conn, m_thread, m_lines, m_rets>>
    /\ UNCHANGED <<dvars, avars, ivars, pvars, svars, lvars, evars, bvars, ovars, kvars, qvars>>

\* stream_thread up to the loop of SSHWorker.stream_logs: _ensure_connected
\* and exec_command, which raise without a connected worker
StreamThreadBegin(t) ==
    /\ m_thr[t].pc = "begin"
    /\ m_thr' = [m_thr EXCEPT ![t] = IF m_conn = "connected"
                                     THEN [@ EXCEPT !.pc = "loop", !.chan = TRUE]
                                     ELSE [@ EXCEPT !.pc = "exited"]]
    /\ UNCHANGED <<m_conn, m_stop, m_thread, m_lines, m_rets>>
    /\ UNCHANGED <<dvars, avars, ivars, pvars, svars, lvars, evars, bvars, ovars, kvars, qvars>>

\* one turn of "while not stop_event.is_set()" that logs a line
StreamThreadLine(t) ==
    /\ m_thr[t].pc = "loop"
    /\ ~m_stop
    /\ m_thr[t].chan
    /\ m_lines < MaxStreamLines
    /\ m_lines' = m_lines + 1
    /\ UNCHANGED <<m_conn, m_stop, m_thread, m_thr, m_rets>>
    /\ UNCHANGED <<dvars, avars, ivars, pvars, svars, lvars, evars, bvars, ovars, kvars, qvars>>

\* the remote journalctl ends
StreamRemoteEnds(t) ==
    /\ m_thr[t].pc = "loop"
    /\ m_thr[t].chan
    /\ m_thr' = [m_thr EXCEPT ![t].chan = FALSE]
    /\ UNCHANGED <<m_conn, m_stop, m_thread, m_lines, m_rets>>
    /\ UNCHANGED <<dvars, avars, ivars, pvars, svars, lvars, evars, bvars, ovars, kvars, qvars>>

\* the loop ends: the stop event is set, or the channel reports its exit
\* status or raises
StreamThreadExit(t) ==
    /\ m_thr[t].pc = "loop"
    /\ m_stop \/ ~m_thr[t].chan
    /\ m_thr' = [m_thr EXCEPT ![t].pc = "exited"]
    /\ UNCHANGED <<m_conn, m_stop, m_thread, m_lines, m_rets>>
    /\ UNCHANGED <<dvars, avars, ivars, pvars, svars, lvars, evars, bvars, ovars, kvars, qvars>>

\* the sub-models below the application object, before any call
XIdle == SIdle /\ LIdle /\ EIdle /\ BIdle /\ OIdle /\ KIdle /\ QIdle /\ MIdle

(***************************************************************************)
(* Properties of the discovery engine                                      *)
(***************************************************************************)
RECURSIVE SumOver(_, _)
SumOver(f, S) ==
    IF S = {} THEN 0
    ELSE LET e == CHOOSE x \in S : TRUE IN f[e] + SumOver(f, S \ {e})

\* number of device_found callbacks made so far for the pair (key, ip)
FoundCount(f, key, ip) == SumOver(f, {e \in DOMAIN f : e.key = key /\ e.ip = ip})

InRegistry(reg, key, ip) == key \in DOMAIN reg /\ ip \in reg[key].ips

\* the number an alias carries
AliasNumber(alias) == StrToInt(LastWord(alias))

\* keys whose record the sweeper removed and that were not sighted again
EvictedKeys ==
    {k \in DOMAIN alias_map :
        /\ k \notin DOMAIN registry
        /\ \A t \in Threads : ~(sight[t].pc = "registry" /\ sight[t].key = k)}

\* C1: a device_found callback is made for a (device_key, address) pair
\* exactly when a sighting adds the pair to the registry; a sighting of a
\* pair whose record is in the registry with that address makes none, in
\* every interleaving of the discovery threads.
C1_FoundOncePerPair ==
    [][\A k \in DOMAIN alias_map', ip \in ProbeIps :
          FoundCount(found', k, ip) =
              FoundCount(found, k, ip)
              + (IF InRegistry(registry', k, ip) /\ ~InRegistry(registry, k, ip)
                 THEN 1 ELSE 0)]_vars

C1_Witness ==
    /\ "repeat" \in outcomes
    /\ \E k \in DOMAIN registry, ip \in ProbeIps :
          InRegistry(registry, k, ip) /\ FoundCount(found, k, ip) = 1

\* C2: no two distinct device keys are bound to the same alias.
C2_AliasesDistinct ==
    \A k1, k2 \in DOMAIN alias_map :
        k1 # k2 => alias_map[k1] # alias_map[k2]

\* C3: an address of the ignore list never gets a device_found, device_gone
\* or webapp_status event and never enters the registry or the seen-address
\* set.
C3_IgnoredSilent ==
    \A ip \in ignored_ips :
        /\ \A e \in DOMAIN found : e.ip # ip
        /\ (ip \in DOMAIN goneCnt => goneCnt[ip] = 0)
        /\ ip \notin webLog
        /\ ip \notin seen_ips
        /\ \A k \in DOMAIN registry : ip \notin registry[k].ips

C3_Witness ==
    /\ "ignored" \in outcomes
    /\ IpLan \in ignored_ips
    /\ found # <<>>
    /\ webLog # {}
    /\ \E ip \in ProbeIps : goneCnt[ip] > 0

\* C4: a step that removes records from the registry removes only records
\* whose age exceeds the staleness threshold and makes exactly one
\* device_gone callback per address of each removed record and no other;
\* after a pass that reported something no stale record is left, so the next
\* pass has nothing more to report for it.
C4_GoneOncePerAddress ==
    [][LET removed == (DOMAIN registry) \ (DOMAIN registry') IN
       /\ \A k \in removed : clock - registry[k].last_seen > StaleTimeout
       /\ \A ip \in ProbeIps :
            goneCnt'[ip] = goneCnt[ip]
                           + Cardinality({k \in removed : ip \in registry[k].ips})
       /\ (goneCnt' # goneCnt =>
              \A k \in DOMAIN registry' :
                  ~(clock' - registry'[k].last_seen > StaleTimeout))]_vars

C4_Witness ==
    /\ Cardinality(DOMAIN alias_map) = 1
    /\ registry = <<>>
    /\ goneCnt[IpLan] = 1
    /\ goneCnt[IpUsb] = 1

\* the step in which thread t, the only one inside _emit_device, gets the
\* index for a key that has no alias yet, after some device was evicted
AllocAfterEviction(t) ==
    /\ sight[t].pc = "alias_next"
    /\ sight'[t].pc = "alias_write"
    /\ EvictedKeys # {}
    /\ \A u \in Threads \ {t} : sight[u].pc \in {"idle", "dead"}

\* C6 as claimed: the new device gets the lowest number not held by a device
\* still in the registry.
C6_FreedNumberReused ==
    [][\A t \in Threads :
          AllocAfterEviction(t) =>
              sight'[t].idx =
                  LowestFrom({AliasNumber(registry[k].alias) : k \in DOMAIN registry}, 1)]_vars

\* C6 amended: eviction frees no number.  The new device gets the lowest
\* number carried by no alias of the alias map, the aliases of evicted
\* devices included, hence never the number of an evicted device.
C6_EvictedNumberKept ==
    [][\A t \in Threads :
          AllocAfterEviction(t) =>
              LET n == sight'[t].idx
                  bound == {AliasNumber(alias_map[k]) : k \in DOMAIN alias_map}
              IN /\ n >= 1
                 /\ n \notin bound
                 /\ \A m \in 1..(n - 1) : m \in bound
                 /\ \A k \in EvictedKeys : AliasNumber(alias_map[k]) # n]_vars

C6_Witness ==
    /\ registry = <<>>
    /\ \E k \in EvictedKeys : AliasNumber(alias_map[k]) = 1
    /\ \E t \in Threads :
          /\ sight[t].pc = "alias_write"
          /\ sight[t].idx = 2
          /\ sight[t].key \notin DOMAIN alias_map

\* C7: all device_found events of one device key carry the same base alias
\* and differ only in the segment tag of their address.
C7_SameBaseAlias ==
    \A e1, e2 \in DOMAIN found :
        e1.key = e2.key =>
            \E base \in {alias_map[k] : k \in DOMAIN alias_map} \cup
                        {FormatAlias(n) : n \in 1..MaxSightings} :
                /\ e1.alias = ComposeAlias(base, IpTag(e1.ip))
                /\ e2.alias = ComposeAlias(base, IpTag(e2.ip))

Init == DInit /\ AIdle /\ IIdle /\ PIdle /\ XIdle

Next ==
    \/ UNCHANGED <<avars, ivars, pvars, xvars>> /\
       \E server \in HostNames, ip \in ProbeIps : OnService(server, ip)
    \/ UNCHANGED <<avars, ivars, pvars, xvars>> /\
       \E w \in Workers, ip \in ProbeIps : WorkerSighting(w, ip)
    \/ UNCHANGED <<avars, ivars, pvars, xvars>> /\
       \E t \in Threads : AliasForKnown(t)
    \/ UNCHANGED <<avars, ivars, pvars, xvars>> /\
       \E t \in Threads : AliasForUnknown(t)
    \/ UNCHANGED <<avars, ivars, pvars, xvars>> /\
       \E t \in Threads : NextIndexBegin(t)
    \/ UNCHANGED <<avars, ivars, pvars, xvars>> /\
       \E t \in Threads : NextIndexEnd(t)
    \/ UNCHANGED <<avars, ivars, pvars, xvars>> /\
       \E t \in Threads : NextIndexRaise(t)
    \/ UNCHANGED <<avars, ivars, pvars, xvars>> /\
       \E t \in Threads : AliasForWrite(t)
    \/ UNCHANGED <<avars, ivars, pvars, xvars>> /\
       \E t \in Threads : EmitDeviceRegister(t)
    \/ UNCHANGED <<avars, ivars, pvars, xvars>> /\
       ScanCidrFinish
    \/ UNCHANGED <<avars, ivars, pvars, xvars>> /\
       PollCycle
    \/ UNCHANGED <<avars, ivars, pvars, xvars>> /\
       SweeperPass
    \/ UNCHANGED <<avars, ivars, pvars, xvars>> /\
       Tick

Spec == Init /\ [][Next]_vars

(***************************************************************************)
(* DeviceAliasManager used by one caller                                   *)
(***************************************************************************)
\* the device ids alias_for is called with
AliasKeys == {StrBjorn, NameBjorn2, IpLan, IpUsb}

\* alias_for(device_id), from its first line to its return
AliasFor(device_id) ==
    /\ Len(a_calls) < MaxCalls
    /\ IF device_id \in DOMAIN a_map
       THEN /\ a_calls' = Append(a_calls, [key |-> device_id, alias |-> a_map[device_id]])
            /\ UNCHANGED a_map
       ELSE LET alias == FormatAlias(NextIndex(a_map)) IN
            /\ a_map' = AliasForStore(a_map, device_id, NextIndex(a_map))
            /\ a_calls' = Append(a_calls, [key |-> device_id, alias |-> alias])
    /\ UNCHANGED <<dvars, ivars, pvars, xvars>>

AInit == DIdle /\ AIdle /\ IIdle /\ PIdle /\ XIdle

ANext == \E device_id \in AliasKeys : AliasFor(device_id)

SpecAlias == AInit /\ [][ANext]_vars

\* position of the first call made for key
FirstCall(calls, key) == CHOOSE i \in 1..Len(calls) :
    calls[i].key = key /\ \A j \in 1..(i - 1) : calls[j].key # key

\* how many distinct keys had been passed when key was first passed, key included
KeyRank(calls, key) == Cardinality({calls[j].key : j \in 1..FirstCall(calls, key)})

\* C5: in a fresh alias manager called by one caller, the N-th distinct key
\* gets "Bjorn N" (numbers 1..N in call order, each the lowest unused one), a
\* call for a known key returns the alias it got first, and the map holds
\* exactly these bindings.
C5_SequentialNumbers ==
    /\ \A i \in 1..Len(a_calls) :
          /\ a_calls[i].alias = FormatAlias(KeyRank(a_calls, a_calls[i].key))
          /\ AliasNumber(a_calls[i].alias) = KeyRank(a_calls, a_calls[i].key)
    /\ DOMAIN a_map = {a_calls[i].key : i \in 1..Len(a_calls)}
    /\ \A k \in DOMAIN a_map : a_map[k] = FormatAlias(KeyRank(a_calls, k))

C5_Witness ==
    /\ Len(a_calls) = 4
    /\ Cardinality(DOMAIN a_map) = 3
    /\ a_calls[4].key = a_calls[1].key
    /\ AliasNumber(a_calls[3].alias) = 3

(***************************************************************************)
(* run_install: specification and properties                               *)
(***************************************************************************)
InstallInit == DIdle /\ AIdle /\ PIdle /\ XIdle /\ IInit

InstallNext ==
    \/ RunInstallStart
    \/ \E at \in {"chmod", "open_session"} : RunInstallStartRaise(at)
    \/ \E k \in 1..Len(i_stream) : RemoteProduce(k)
    \/ \E rc \in {0, 1} : RemoteExit(rc)
    \/ LoopRecv
    \/ LoopPassword
    \/ LoopPasswordRaise
    \/ LoopExit

SpecInstall == InstallInit /\ [][InstallNext]_vars

\* the thread that runs run_install keeps running: every step of the call
\* that can be taken is taken; nothing is assumed about the remote command.
\* The second conjunct is WF_vars(LoopRecv) with the enabling condition of
\* LoopRecv written out.
SpecInstallFair ==
    /\ SpecInstall
    /\ WF_vars(RunInstallStart)
    /\ \/ []<>~(i_pc = "recv" /\ ~RecvWaits(Available))
       \/ []<><<LoopRecv>>_vars
    /\ WF_vars(LoopPassword)
    /\ WF_vars(LoopExit)

\* the progress events among the callback calls, as (current, total) pairs
Progress(events) ==
    LET p == SelectSeq(events, LAMBDA e : e.type = "progress")
    IN [i \in 1..Len(p) |-> <<p[i].current, p[i].total>>]

\* the (n, total) of the "Step n of total" lines of the whole remote output,
\* in the order of the lines
StreamMarkers(stream) == Progress(ChunkEvents(SplitLines(Decode(stream)), TRUE))

\* a is b with some elements left out
RECURSIVE IsSubSeq(_, _)
IsSubSeq(a, b) ==
    IF a = <<>> THEN TRUE
    ELSE IF b = <<>> THEN FALSE
    ELSE IF Head(a) = Head(b) THEN IsSubSeq(Tail(a), Tail(b))
    ELSE IsSubSeq(a, Tail(b))

\* C9: during one run_install call the progress events come in the order of
\* the "Step n of total" lines of the remote output and each carries the
\* (n, total) of its line: the events emitted so far are, in order, markers of
\* lines of the output.
C9_ProgressInLineOrder ==
    IsSubSeq(Progress(i_events), StreamMarkers(i_stream))

RECURSIVE SumSeq(_)
SumSeq(s) == IF s = <<>> THEN 0 ELSE Head(s) + SumSeq(Tail(s))

\* the bytes returned by recv in the poll loop, before the drain
MainReceived == SubSeq(i_stream, 1, SumSeq(i_reads))

\* C10: during one run_install call the sudo password (with its newline) is
\* written to the channel at most once, and exactly once as soon as the
\* password test has run on received output that holds the prompt marker:
\* in particular when the call returns after observing the exit status.
C10_PasswordWrittenOnce ==
    /\ Len(i_sends) <= 1
    /\ \A n \in 1..Len(i_sends) : i_sends[n] = SudoPassword(InstallConfig) \o <<"\n">>
    /\ (/\ i_pc \in {"exit", "recv"} \/ (i_pc = "done" /\ i_rc # -1)
        /\ PromptSeen(MainReceived))
       => Len(i_sends) = 1

\* the marker came in two chunks, before and after the password was written
C10_Witness ==
    /\ i_pc = "done"
    /\ i_rc # -1
    /\ Len(i_reads) >= 2
    /\ PromptSeen(SubSeq(i_stream, 1, i_reads[1]))
    /\ PromptSeen(SubSeq(i_stream, i_reads[1] + 1, i_reads[1] + i_reads[2]))
    /\ Len(i_sends) = 1

\* C13: once the remote command has exited, the call returns, whatever the
\* command wrote (nothing at all, no password prompt): the loop never
\* waits for output.
C13_ReturnsAfterExit == (i_exit_status # -1) ~> (i_pc = "done")

C13_Witness ==
    /\ i_pc = "done" /\ i_rc # -1
    /\ i_stream = <<>> /\ i_reads = <<>> /\ i_sends = <<>>

\* C14: a finished call returned True or False; it returned True exactly
\* when it read the exit status zero, False when it read another status or
\* when a fault ended it (before the loop or in it), and the success event
\* was logged exactly by the calls that returned True.
C14_ReturnsExitZero ==
    i_pc = "done" =>
        /\ i_ret \in {"True", "False"}
        /\ i_ret = "True" <=> i_rc = 0
        /\ i_ret = "True" <=>
               \E n \in DOMAIN i_events : i_events[n] = LogEvent(Msg.completed, "success")

C14_Witness ==
    /\ i_pc = "done" /\ i_ret = "True" /\ i_rc = 0
    /\ Len(i_reads) >= 1
    /\ i_events[Len(i_events)] = LogEvent(Msg.completed, "success")

(***************************************************************************)
(* BJORNWebAPI: specification and properties                               *)
(***************************************************************************)
AppInit == DIdle /\ AIdle /\ IIdle /\ PIdle /\ XIdle

AppNext ==
    \/ ConnectSsh
    \/ \E c \in WorkerIds : ConnectThreadCreate(c)
    \/ \E c \in WorkerIds, how \in {"ok", "raise", "nopass"} : ConnectThreadConnect(c, how)
    \/ \E c \in WorkerIds : ConnectThreadPublish(c)
    \/ DisconnectSsh
    \/ InstallBjorn
    \/ \E j \in InstallIds : InstallUploadBegin(j)
    \/ \E j \in InstallIds, ok \in BOOLEAN : InstallUploadEnd(j, ok)
    \/ \E j \in InstallIds : InstallRunBegin(j)
    \/ \E j \in InstallIds : InstallRunEnd(j)
    \/ \E j \in InstallIds : InstallFinish(j)

SpecApp == AppInit /\ [][AppNext]_vars

\* the install threads that are inside an upload or inside run_install on w
ActiveOn(w) ==
    {j \in InstallIds : installs[j].pc \in {"uploading", "running"} /\ installs[j].w = w}

\* C8: at most one installation sequence is active on an SSHWorker at any
\* time (a request made while one is in flight starts no second sequence).
C8_OneSequencePerWorker ==
    \A w \in WorkerIds : Cardinality(ActiveOn(w)) <= 1

(***************************************************************************)
(* SSHWorker connect and close: specification and properties               *)
(***************************************************************************)
WorkerNext ==
    \/ \E env \in [reachable : BOOLEAN, key_ok : BOOLEAN, pw_ok : BOOLEAN] : Connect(env)
    \/ \E close_raises \in BOOLEAN : Close(close_raises)

\* a worker built by connect_ssh, everything else before any call
WorkerInit == MIdle /\ QIdle /\ KIdle /\ OIdle /\ BIdle /\ DIdle /\ AIdle /\ IIdle /\ PIdle /\ LIdle /\ EIdle /\ SInit

SpecWorker ==
    /\ WorkerInit
    /\ [][WorkerNext]_vars

\* the levels of the events the last call logged
Levels(events) == {events[n].level : n \in DOMAIN events}

\* the explicit key path of the configuration names no usable key
ExplicitKeyUnusable == s_config.key_path # "" /\ s_files[s_config.key_path] # "valid"

\* C11: connect tries the key first when a key file is resolved; when the
\* key attempt fails against a reachable server and a password is configured
\* it goes on to the password; with an unusable explicit key path and a
\* valid password it returns True and leaves the worker connected.
C11_KeyFirstThenPassword ==
    s_op = "connect" =>
        LET key_path == ResolveKeyPath(s_config, s_files)
        IN  /\ key_path # "" => (s_tried # <<>> /\ s_tried[1] = "key")
            /\ (/\ key_path # "" /\ s_env.reachable
                /\ (s_files[key_path] # "valid" \/ ~s_env.key_ok)
                /\ s_config.password # "")
               => s_tried = <<"key", "password">>
            /\ (/\ ExplicitKeyUnusable /\ s_config.password # ""
                /\ s_env.reachable /\ s_env.pw_ok)
               => (s_ret = "True" /\ s_connected /\ s_client # 0)

C16_CloseIdempotent ==
    [][(s_op' = "close" /\ s_calls' = s_calls + 1) =>
          /\ s_ret' = "None" /\ ~s_connected' /\ s_client' = 0
          /\ (s_op = "close" \/ s_clients = 0) =>
                 (s_client' = s_client /\ s_connected' = s_connected)]_vars

C16_Witness ==
    /\ Len(s_hist) = 3
    /\ s_hist[1] = [op |-> "connect", ret |-> "True", close_raised |-> FALSE]
    /\ s_hist[2] = [op |-> "close", ret |-> "None", close_raised |-> TRUE]
    /\ s_hist[3].op = "close"
    /\ s_client = 0 /\ ~s_connected

(***************************************************************************)
(* stream_logs: specification and properties                               *)
(***************************************************************************)
LogsNext ==
    \/ LogsStop
    \/ \E k \in 1..Len(l_stream) : LogsProduce(k)
    \/ LogsExit
    \/ \E raises \in BOOLEAN : LogsStart(raises)
    \/ LogsWhile
    \/ LogsFor
    \/ LogsClose

\* a log stream about to start, everything else before any call
LogsInit == MIdle /\ QIdle /\ KIdle /\ OIdle /\ BIdle /\ DIdle /\ AIdle /\ IIdle /\ PIdle /\ SIdle /\ EIdle /\ LInit

\* the thread that runs stream_logs keeps running; nothing is assumed about
\* the remote command or about the stop event
SpecLogs ==
    /\ LogsInit
    /\ [][LogsNext]_vars
    /\ WF_vars(\E raises \in {FALSE} : LogsStart(raises))
    /\ WF_vars(LogsWhile)
    /\ WF_vars(LogsFor)
    /\ WF_vars(LogsClose)

\* the texts of the '[BJORN]' lines among the events, one after the other
RECURSIVE BjornText(_)
BjornText(events) ==
    IF events = <<>> THEN <<>>
    ELSE (IF Head(events).message[1] = SshMsg.logs_bjorn
          THEN Head(events).message[2] ELSE <<>>) \o BjornText(Tail(events))

\* the characters of a text or byte sequence that are neither white space
\* nor part of a two-byte character
Visible(s) ==
    SelectSeq(s, LAMBDA c : ~IsSpace(c) /\ c \notin {Utf8.lead, Utf8.cont, Utf8.char,
                                                     Utf8.replacement})

LifeFails == {{}, {"zeroconf"}, {"browsers"}, {"cidr"}, {"sweeper"}}

LifeNext ==
    \/ \E fails \in LifeFails : LifeStart(fails)
    \/ \E call \in {"stop", "reset"} : LifeStopBegin(call)
    \/ LifeStopEnd
    \/ \E fails \in LifeFails : LifeResetRestart(fails)
    \/ \E g \in 1..MaxStarts : CidrSpawn(g)
    \/ \E g \in 1..MaxStarts : CidrFinish(g)
    \/ \E g \in 1..MaxStarts : WorkerTake(g)
    \/ \E g \in 1..MaxStarts : WorkerSeen(g)
    \/ \E g \in 1..MaxStarts : WorkerAlias(g)
    \/ \E g \in 1..MaxStarts : WorkerRegister(g)
    \/ \E g \in 1..MaxStarts : \E del \in {{}} \cup {{i} : i \in 1..MaxLifeIps} : LifeSweeperPass(g, del)
    \/ \E g \in 1..MaxStarts : LifePollCycle(g)

\* a new Discovery object, everything else before any call
LifeInit == MIdle /\ QIdle /\ KIdle /\ OIdle /\ BIdle /\ DIdle /\ AIdle /\ IIdle /\ PIdle /\ SIdle /\ LIdle /\ EIdle

\* every started thread keeps running and a lifecycle call that was begun
\* is carried through; which calls are made, and when, is free
SpecLife ==
    /\ LifeInit
    /\ [][LifeNext]_vars
    /\ WF_vars(LifeStopEnd)
    /\ WF_vars(\E fails \in {{}} : LifeResetRestart(fails))
    /\ \A g \in 1..MaxStarts :
          /\ WF_vars(CidrSpawn(g)) /\ WF_vars(CidrFinish(g))
          /\ WF_vars(WorkerTake(g)) /\ WF_vars(WorkerSeen(g))
          /\ WF_vars(WorkerAlias(g)) /\ WF_vars(WorkerRegister(g))
          /\ WF_vars(LifeSweeperPass(g, {}))
          /\ WF_vars(LifePollCycle(g))

\* C17: every thread that was running when stop() was called (by itself or
\* as the first step of reset()) eventually reads the stop flag as set and
\* exits.
C17_StoppedThreadsExit ==
    \A th \in ThreadIds :
        (th \in e_owed) ~> (e_thr[th].pc = "exited" /\ e_thr[th].obs)

\* C18: between lifecycle calls, every entry of the seen-address set, of the
\* alias map and of the registry was produced by a sighting begun after the
\* last clear, and the first sighting begun after the last clear was given
\* alias number 1.
C18_ResetStateIsFresh ==
    e_call = "idle" =>
        /\ \A s \in e_seen : s.epoch = e_clears
        /\ \A k \in DOMAIN e_alias : e_alias[k].epoch = e_clears
        /\ \A k \in DOMAIN e_registry : e_registry[k].epoch = e_clears
        /\ e_first \in {0, 1}

\* C19: start() returns normally whatever stages fail; every failure that
\* happened is logged as an error, and every stage that did not fail, and
\* does not need a failed one (the browsers need Zeroconf), is started.
C19_StartStagesIndependent ==
    e_gen > 0 =>
        /\ e_start.ret = "None"
        /\ e_start.errors =
              e_start.fails \ (IF "zeroconf" \in e_start.fails THEN {"browsers"} ELSE {})
        /\ "zeroconf" \notin e_start.fails => e_start.zeroconf
        /\ e_start.fails \cap {"zeroconf", "browsers"} = {} => e_start.browsers
        /\ "cidr" \notin e_start.fails =>
              e_start.cidr /\ e_thr[<<"cidr", e_gen>>].pc # "none"
        /\ "sweeper" \notin e_start.fails =>
              e_start.sweeper /\ e_thr[<<"sweeper", e_gen>>].pc # "none"

C19_Witness ==
    /\ e_gen = 2 /\ e_call = "idle"
    /\ e_start.fails = {"cidr"}
    /\ e_start.errors = {"cidr"}
    /\ e_thr[<<"sweeper", 2>>].pc = "loop"
    /\ e_thr[<<"cidr", 2>>].pc = "none"

\* C20: no device_found and no device_gone callback is made while the
\* caller holds the registry lock.
C20_NoEmitUnderLock ==
    \A e \in e_emits : e.type \in {"device_found", "device_gone"} => ~e.locked

\* C27: a poller thread exists only when the workers of its sweep have
\* exited, at most one poller runs, and a sweep that was running when stop
\* was requested does not start the poller.
C27_PollerAfterSweepOnce ==
    /\ [](\A g \in 1..MaxStarts :
            e_thr[<<"poller", g>>].pc # "none" =>
                e_thr[<<"worker", g>>].pc \in {"none", "exited"})
    /\ [](Cardinality({g \in 1..MaxStarts : e_thr[<<"poller", g>>].pc = "loop"}) <= 1)
    /\ [][\A g \in 1..MaxStarts :
            (e_thr[<<"poller", g>>].pc = "none" /\ e_thr'[<<"poller", g>>].pc # "none")
                => <<"cidr", g>> \notin e_owed]_vars

(***************************************************************************)
(* JSBridge: specification and properties                                  *)
(***************************************************************************)
BridgeInit == MIdle /\ QIdle /\ KIdle /\ OIdle /\ DIdle /\ AIdle /\ IIdle /\ PIdle /\ SIdle /\ LIdle /\ EIdle /\ BIdle

BridgeNext ==
    \/ JsSetWindow
    \/ \E fn \in {"addLog", "__raw__"} : JsCall(fn)
    \/ JsMarkReady
    \/ JsStopSet
    \/ JsStopPut
    \/ \E c \in 1..MaxJsReady : JsConsumeWait(c)
    \/ \E c \in 1..MaxJsReady : JsConsumeTest(c)
    \/ \E c \in 1..MaxJsReady : JsConsumeGet(c)
    \/ \E c \in 1..MaxJsReady : JsConsumeEmpty(c)
    \/ \E c \in 1..MaxJsReady : JsExecute(c)
    \/ \E c \in 1..MaxJsReady : JsEvaluateEnd(c)

\* the consumer threads keep running and a stop() that was begun puts its
\* sentinel; which calls are made, and when, is free
SpecBridge ==
    /\ BridgeInit
    /\ [][BridgeNext]_vars
    /\ WF_vars(JsStopPut)
    /\ \A c \in 1..MaxJsReady :
          /\ WF_vars(JsConsumeWait(c)) /\ WF_vars(JsConsumeTest(c))
          /\ WF_vars(JsConsumeGet(c)) /\ WF_vars(JsConsumeEmpty(c))
          /\ WF_vars(JsExecute(c)) /\ WF_vars(JsEvaluateEnd(c))

\* C24: the evaluate_js calls begin in the order of the puts, and none
\* begins before mark_ready() was invoked.
C24_FifoAfterReady ==
    /\ \A k \in 1..(Len(b_log) - 1) : b_log[k] < b_log[k + 1]
    /\ ~b_ready => b_log = <<>>

\* C25: no queued call is passed to evaluate_js twice, and when the window
\* is set before mark_ready() and from some moment on mark_ready() was
\* invoked and no stop is requested, every queued call is eventually passed
\* to evaluate_js.
C25_NoMessageDropped ==
    /\ [](\A j, k \in 1..Len(b_log) : b_log[j] = b_log[k] => j = k)
    /\ ([](b_ready => b_window) /\ <>[](b_ready /\ ~b_stop)) =>
          \A i \in 1..MaxJsItems :
              (b_enq >= i) ~> (\E k \in 1..Len(b_log) : b_log[k] = i)

\* C26: at most one consumer thread is inside evaluate_js at any time.
C26_OneEvaluateAtATime ==
    Cardinality({c \in 1..MaxJsReady : b_thr[c].pc = "js"}) <= 1

(***************************************************************************)
(* SSHWorker operations and resources: specification and properties        *)
(***************************************************************************)
OpsInit ==
    MIdle /\ QIdle /\ KIdle /\ DIdle /\ AIdle /\ IIdle /\ PIdle /\ SIdle /\ LIdle /\ EIdle /\ BIdle /\ OInit

\* the faults of each operation: the call that raises, or none
OpsFaults ==
    [_probe_tcp |-> {"none", "connect"},
     exec_simple |-> {"none", "exec_command", "write", "read"},
     upload_file |-> {"none", "open_sftp", "put"},
     run_install |-> {"none"},
     stream_logs |-> {"none", "exec_command", "loop"}]

OpsNext ==
    \/ \E env \in [reachable : BOOLEAN, key_ok : BOOLEAN, pw_ok : BOOLEAN] : OpsConnect(env)
    \/ OpsClose
    \/ \E name \in DOMAIN OpsFaults : \E fault \in OpsFaults[name] : OpsCall(name, fault)

SpecOps == OpsInit /\ [][OpsNext]_vars

\* C21: between operations, the only resource open is the transport of the
\* client the worker holds.
C21_ResourcesReleased ==
    o_open = [NoResources EXCEPT !.transport = IF o_client # 0 THEN 1 ELSE 0]

\* C22: exec_simple, upload_file and run_install on a worker that holds no
\* client perform no remote action and change neither the worker nor the
\* resources; the first two raise the not-connected error, run_install
\* returns False and logs one error.
C22_NotConnectedIsInert ==
    (o_op.name \in {"exec_simple", "upload_file", "run_install"} /\ ~o_op.had_client) =>
        /\ o_op.remote = 0
        /\ o_client = 0
        /\ o_connected = o_op.was_connected
        /\ o_open = o_op.was_open
        /\ o_op.name \in {"exec_simple", "upload_file"} =>
              o_op.ret = "raise" /\ o_op.exc = "RuntimeError" /\ o_op.events = <<>>
        /\ o_op.name = "run_install" =>
              /\ o_op.ret = "False"
              /\ Len(o_op.events) = 1
              /\ o_op.events[1].level = "error"

C22_Witness ==
    /\ o_calls = 3
    /\ o_op.name = "exec_simple" /\ ~o_op.had_client
    /\ o_op.ret = "raise"
    /\ o_op.was_open = NoResources

\* C23: exec_simple on a connected worker does not raise.
C23_ExecSimpleNeverRaises ==
    (o_op.name = "exec_simple" /\ o_op.had_client) => o_op.ret # "raise"

(***************************************************************************)
(* _scan_cidr_loop: specification and properties                           *)
(***************************************************************************)
SweepInit ==
    MIdle /\ QIdle /\ DIdle /\ AIdle /\ IIdle /\ PIdle /\ SIdle /\ LIdle /\ EIdle /\ BIdle /\ OIdle /\ KInit

SweepNext ==
    \/ SweepStop
    \/ SweepBegin
    \/ SweepSpawn
    \/ \E t \in SweepWorkerIds : SweepWorkerTake(t)
    \/ \E t \in SweepWorkerIds : \E emit_raises \in BOOLEAN : SweepWorkerProbe(t, emit_raises)
    \/ SweepJoin
    \/ SweepAfter

SpecSweep == SweepInit /\ [][SweepNext]_vars

\* C28: at most SweepPool probes are in flight, and when a sweep has ended
\* without stop being requested every host address of its networks was
\* probed exactly once.
C28_EachHostProbedOnce ==
    /\ Cardinality({t \in SweepWorkerIds : k_thr[t].pc = "probe"}) <= SweepPool
    /\ (k_pc = "done" /\ ~k_stop) =>
          \A n \in 1..Len(k_nets) : \A j \in 1..Len(k_nets[n]) :
              k_probes[k_nets[n][j]] = 1

(***************************************************************************)
(* _port8000_poll: properties                                              *)
(***************************************************************************)
\* C29: a poll cycle pushes webapp_status only for addresses that belong to
\* a registry record when the cycle takes its snapshot: none for an address
\* the strict filter rejected, none for an address the sweeper evicted.  An
\* address whose _emit_device call is still between its first and its last
\* statement on another thread is not held against the poller.
C29_StatusOnlyForRegistered ==
    [][\A ip \in webLog' \ webLog :
          \/ \E k \in DOMAIN registry : ip \in registry[k].ips
          \/ \E t \in DOMAIN sight : sight[t].pc # "idle" /\ sight[t].ip = ip]_vars


(***************************************************************************)
(* _port8000_poll alone: specification and properties                      *)
(***************************************************************************)
PollInit ==
    MIdle /\ DIdle /\ AIdle /\ IIdle /\ PIdle /\ SIdle /\ LIdle /\ EIdle /\ BIdle /\ OIdle /\ KIdle /\ QInit

PollNext ==
    \/ PollStop
    \/ \E ip \in PollIps : PollWebappFlip(ip)
    \/ \E ip \in PollIps : PollSeen(ip)
    \/ PollSnapshot
    \/ \E ip \in PollIps : PollCompleted(ip)
    \/ PollSleep

SpecPoll == PollInit /\ [][PollNext]_vars

\* C30: a webapp_status is pushed for an address only when the reachability
\* it reports differs from the one last reported for that address.
C30_StatusOnlyOnChange ==
    \A j, k \in 1..Len(q_events) :
        (/\ j < k
         /\ q_events[j].ip = q_events[k].ip
         /\ \A m \in (j + 1)..(k - 1) : q_events[m].ip # q_events[k].ip)
            => q_events[j].up # q_events[k].up

(***************************************************************************)
(* eviction and last_seen: properties                                      *)
(***************************************************************************)
\* C31: a record leaves the registry, and a device_gone is made for one of
\* its addresses, only when now - last_seen exceeds the staleness threshold;
\* and every sighting that reaches the registry, new or repeated, leaves the
\* record with last_seen equal to the time the sighting read.
C31_FreshNeverEvicted ==
    [][/\ \A k \in (DOMAIN registry) \ (DOMAIN registry') :
             clock - registry[k].last_seen > StaleTimeout
       /\ \A ip \in ProbeIps :
             goneCnt'[ip] > goneCnt[ip] =>
                 \E k \in DOMAIN registry :
                     /\ ip \in registry[k].ips
                     /\ clock - registry[k].last_seen > StaleTimeout
       /\ \A t \in Threads :
             (sight[t].pc = "registry" /\ sight'[t].pc # "registry") =>
                 /\ sight[t].key \in DOMAIN registry'
                 /\ registry'[sight[t].key].last_seen = sight[t].now]_vars

\* a repeat sighting after the clock advanced refreshed one record, which
\* stayed, while another device was evicted
C31_Witness ==
    /\ "repeat" \in outcomes
    /\ clock > StaleTimeout
    /\ \E k \in DOMAIN registry : registry[k].last_seen = clock
    /\ \E ip \in ProbeIps : goneCnt[ip] > 0

(***************************************************************************)
(* run_install: the lines of the remote output                             *)
(***************************************************************************)
\* the messages of the log events made for lines of the remote output (the
\* fixed messages of run_install itself are left out)
OutputLogs(events) ==
    LET l == SelectSeq(events, LAMBDA e :
                 /\ e.type = "log"
                 /\ e.level = "info"
                 /\ e.message \notin {Msg.starting, Msg.password_sent})
    IN [i \in 1..Len(l) |-> l[i].message]

\* the non-blank lines of the whole remote output, in order
StreamLines(stream) ==
    SelectSeq(SplitLines(Decode(stream)), LAMBDA line : Strip(line) # <<>>)

\* the call returned after it read the exit status
ReturnedWithStatus == i_pc = "done" /\ i_rc # -1

\* C32: when run_install returns after reading the exit status, the log
\* events made for the remote output are exactly its non-blank lines, one
\* event per line and in the order of the lines, however recv cut the bytes
\* into chunks, and the completion or failure event comes after all of them.
C32_OneLogPerLine ==
    ReturnedWithStatus =>
        /\ OutputLogs(i_events) = StreamLines(i_stream)
        /\ i_events[Len(i_events)].level \in {"success", "error"}

\* C33: when run_install returns after reading the exit status, the progress
\* events are exactly the (n, total) of the "Step n of total" lines of the
\* remote output, one per line, also for a line that came in two chunks and
\* for a line read by the final drain.
C33_OneProgressPerStepLine ==
    ReturnedWithStatus => Progress(i_events) = StreamMarkers(i_stream)

(***************************************************************************)
(* strict mode: properties                                                 *)
(***************************************************************************)
\* C34: in strict mode only sightings whose normalized host name matches the
\* naming convention get a registry record, an alias or a device_found, so
\* every registry key, every key of the alias map and every key reported is a
\* convention-matching host name and never a raw address.
C34_StrictKeysAreBjornNames ==
    strict_bjorn_only =>
        /\ \A k \in DOMAIN registry : k \notin ProbeIps /\ IsBjornHostname(k)
        /\ \A k \in DOMAIN alias_map : k \notin ProbeIps /\ IsBjornHostname(k)
        /\ \A e \in DOMAIN found : e.key \notin ProbeIps /\ IsBjornHostname(e.key)

(***************************************************************************)
(* faults of the event sink: properties                                    *)
(***************************************************************************)
\* C35: a fault the event sink raises while it handles a device_found is
\* absorbed: the sweep worker that made the callback keeps running and
\* takes the next address; no worker thread is ended by such a fault.
C35_SinkFaultAbsorbed ==
    \A t \in SweepWorkerIds : k_thr[t].pc # "dead"

(***************************************************************************)
(* lifecycle: one thread of each kind                                      *)
(***************************************************************************)
\* C36: whatever start(), stop() and reset() calls are made on a Discovery
\* object, at most one subnet-sweep thread, one poller thread and one
\* sweeper thread of the object are alive at any time.
C36_OneThreadPerKind ==
    \A kind \in {"cidr", "poller", "sweeper"} :
        Cardinality({g \in 1..MaxStarts :
                        e_thr[<<kind, g>>].pc \notin {"none", "exited"}}) <= 1

(***************************************************************************)
(* the poller and the registry: properties                                 *)
(***************************************************************************)
\* C37: a poll cycle changes neither the registry nor the device_gone
\* callbacks; last_seen of a record changes only in the step that ends a
\* sighting of its key; and a sweeper pass that evicts anything evicts every
\* record older than the staleness threshold, also one whose addresses the
\* poller has reported.
C37_PollLeavesRegistry ==
    [][/\ webLog' # webLog => (registry' = registry /\ goneCnt' = goneCnt)
       /\ \A k \in (DOMAIN registry) \cap (DOMAIN registry') :
             registry'[k].last_seen # registry[k].last_seen =>
                 \E t \in Threads :
                     /\ sight[t].pc = "registry" /\ sight'[t].pc = "idle"
                     /\ sight[t].key = k
       /\ goneCnt' # goneCnt =>
             \A k \in DOMAIN registry :
                 clock - registry[k].last_seen > StaleTimeout =>
                     k \notin DOMAIN registry']_vars

\* a device was found by the sweep, the poller reported its address after
\* the threshold had passed, and the sweeper evicted it all the same
C37_Witness ==
    /\ sweepDone
    /\ clock > StaleTimeout
    /\ registry = <<>>
    /\ \E e \in DOMAIN found : e.ip \in webLog /\ goneCnt[e.ip] = 1

(***************************************************************************)
(* run_install: the password and the prompt                                *)
(***************************************************************************)
\* C38: the sudo password is written only after a prompt marker ("[sudo]" or
\* "password for", in any case) has appeared in the bytes the poll loop has
\* received so far; a run whose output holds no marker writes no password.
C38_PasswordOnlyAfterPrompt ==
    /\ i_sends # <<>> => PromptSeen(MainReceived)
    /\ ~PromptSeen(i_stream) => i_sends = <<>>

\* a run that received output without a marker returned with the exit
\* status and wrote nothing
C38_Witness ==
    /\ ReturnedWithStatus
    /\ i_reads # <<>>
    /\ ~PromptSeen(i_stream)
    /\ i_sends = <<>>

(***************************************************************************)
(* BJORNWebAPI: the connection state                                       *)
(***************************************************************************)
\* C39: whenever the application holds _connected = True, ssh_worker is an
\* SSHWorker (not None) that is connected.
C39_ConnectedMeansWorker ==
    app_connected => (ssh_worker # 0 /\ w_connected[ssh_worker])


(***************************************************************************)
(* Log streaming of the application object                                 *)
(***************************************************************************)
StreamInit ==
    DIdle /\ AIdle /\ IIdle /\ PIdle /\ SIdle /\ LIdle /\ EIdle /\ BIdle /\ OIdle /\ KIdle /\ QIdle /\ MIdle

StreamNext ==
    \/ AppConnectSsh
    \/ \E ok \in BOOLEAN : AppConnectThread(ok)
    \/ \E late \in BOOLEAN : AppDisconnectSsh(late)
    \/ AppStreamLogs
    \/ AppStopLogStream
    \/ \E t \in StreamThreadIds : StreamThreadBegin(t)
    \/ \E t \in StreamThreadIds : StreamThreadLine(t)
    \/ \E t \in StreamThreadIds : StreamRemoteEnds(t)
    \/ \E t \in StreamThreadIds : StreamThreadExit(t)

SpecStream == StreamInit /\ [][StreamNext]_vars

\* the stream threads that are alive
AliveStreams(thr) == {t \in StreamThreadIds : StreamAlive(thr, t)}

====
